---- MODULE Spec2Model ----
(***************************************************************************)
(* A model of ecs.hpp (src/ecs.hpp): the entity-id codec, the sparse set   *)
(* and sparse map, the typed component storages and the registry.          *)
(*                                                                         *)
(* Every handler of the source is a pure operator from the state before    *)
(* the call (a record `s` holding the registry's fields and the            *)
(* process-wide type-family statics) and the call's inputs to a result     *)
(* [s |-> state after, threw |-> an exception left the call, ret |-> the   *)
(* returned value].  The actions apply the handlers to the variables.      *)
(*                                                                         *)
(* Allocation failure (std::bad_alloc) is an input of the calls that reach *)
(* sparse_set::reserve, the allocation site of the source;                 *)
(* std::vector::push_back is taken to succeed.                             *)
(***************************************************************************)
EXTENDS Integers, Sequences, FiniteSets, TLC

VARIABLES
    last_entity_id_,   \* registry::last_entity_id_
    free_entity_ids_,  \* registry::free_entity_ids_ (std::vector, back = Tail end)
    entity_ids_,       \* registry::entity_ids_ (sparse_set<entity_id>)
    storages_,         \* registry::storages_ (sparse_map<family_id, storage>)
    last_id_,          \* detail::type_family_base<>::last_id_
    self_id,           \* detail::type_family<T>::id()::self_id, 0 = not yet initialised
    watch,             \* history: the handle of the latest successful destroy
    cycles,            \* history: recycles of the slot since the first create
    sset,              \* a detail::sparse_set of unsigned keys, on its own
    smap,              \* a detail::sparse_map from unsigned keys to values, on its own
    stored,            \* history: per key of smap, the value stored last (0 = none)
    bigset,            \* a detail::sparse_set by its capacity alone (any size of vector)
    alloc_hist,        \* history: a create_entity failed; the id created last per index
    second             \* the fields of a second registry of the process

vars == <<last_entity_id_, free_entity_ids_, entity_ids_, storages_,
          last_id_, self_id, watch, cycles, sset, smap, stored,
          bigset, alloc_hist, second>>

\* The registry and the type-family statics.
registry_vars == <<last_entity_id_, free_entity_ids_, entity_ids_, storages_,
                   last_id_, self_id>>

\* The containers that stand on their own.
container_vars == <<sset, smap, stored>>

\* What only the specifications of the growth policy, of the index partition
\* and of the two registries use.
aux_vars == <<bigset, alloc_hist, second>>

(***************************************************************************)
(* Bounds of the model.                                                    *)
(***************************************************************************)
\* Fresh indices the environment asks for (caps ++last_entity_id_).
MaxEntities == 2
\* Highest generation the environment recycles a slot to.
MaxVersion == 1
\* Component values are 1..MaxValue.
MaxValue == 1
\* Recycles of the single slot in SpecCycle.
MaxCycles == 1025

\* The component types of the program.
Types == {"A", "B"}

\* The component types of the program that joins three of them.
JoinTypes == Types \cup {"C"}

(***************************************************************************)
(* config: entity ids                                                      *)
(***************************************************************************)
entity_id_index_bits == 22
entity_id_version_bits == 10
\* Width of entity_id (std::uint32_t).
entity_id_bits == 32

RECURSIVE Pow2(_)
Pow2(n) == IF n = 0 THEN 1 ELSE 2 * Pow2(n - 1)

entity_id_index_mask == Pow2(entity_id_index_bits) - 1
entity_id_version_mask == Pow2(entity_id_version_bits) - 1

\* Bitwise or of two naturals.
RECURSIVE BitOr(_, _)
BitOr(a, b) ==
    IF a = 0 THEN b
    ELSE IF b = 0 THEN a
    ELSE (IF (a % 2 = 1) \/ (b % 2 = 1) THEN 1 ELSE 0) + 2 * BitOr(a \div 2, b \div 2)

\* Bitwise and of two naturals.
RECURSIVE BitAnd(_, _)
BitAnd(a, b) ==
    IF a = 0 \/ b = 0 THEN 0
    ELSE (IF (a % 2 = 1) /\ (b % 2 = 1) THEN 1 ELSE 0) + 2 * BitAnd(a \div 2, b \div 2)

(***************************************************************************)
(* An entity_id is a 32-bit word.  A word is held as the record of its low *)
(* entity_id_index_bits bits (lo) and the bits above them (hi), its value  *)
(* being lo + hi * 2^22: the values reach 2^32 - 1.                        *)
(***************************************************************************)
U32(lo, hi) == [lo |-> lo, hi |-> hi]

\* The word of a natural below 2^31.
ToId(n) == U32(n % Pow2(entity_id_index_bits), n \div Pow2(entity_id_index_bits))

\* The id of a default-constructed handle (entity::id_{0u}), and T() of entity_id.
null_id == U32(0, 0)

\* id & entity_id_index_mask
entity_id_index(id) == BitAnd(id.lo, entity_id_index_mask)

\* (id >> entity_id_index_bits) & entity_id_version_mask
entity_id_version(id) == BitAnd(id.hi, entity_id_version_mask)

\* A plausible slip: the generation saturates at its mask instead of wrapping.
entity_id_join_saturating(index, version) ==
    U32(index % Pow2(entity_id_index_bits),
        IF version > entity_id_version_mask THEN entity_id_version_mask ELSE version)

\* index | (version << entity_id_index_bits), in 32 bits: the shift drops the
\* bits of version from bit (32 - 22) up.
entity_id_join(index, version) ==
    U32(index % Pow2(entity_id_index_bits),
        BitOr((index \div Pow2(entity_id_index_bits)) % Pow2(entity_id_bits - entity_id_index_bits),
              version % Pow2(entity_id_bits - entity_id_index_bits)))

\* detail::entity_id_indexer
entity_id_indexer(id) == entity_id_index(id)

\* detail::sparse_unsigned_indexer<family_id>
sparse_unsigned_indexer(v) == v

(***************************************************************************)
(* detail::sparse_set.  dense_ and sparse_ are functions on                *)
(* 0 .. capacity_ - 1 (reserve builds both vectors with ncapacity          *)
(* value-initialised elements).  indexer_ names the Indexer of the set.    *)
(***************************************************************************)
Max(a, b) == IF a >= b THEN a ELSE b

\* std::size_t of the build has 32 bits.  A value above 2^31 - 1 is written
\* as the negative number that has the same 32 bits, so the largest,
\* static_cast<std::size_t>(-1), is -1.
size_t_max == -1

\* a < b of two std::size_t.
size_t_less(a, b) == IF (a < 0) = (b < 0) THEN a < b ELSE b < 0

\* a + 1u of a std::size_t: it wraps to 0.
size_t_inc(a) == IF a = size_t_max THEN 0 ELSE a + 1

\* std::vector::max_size() of a 32-bit build: PTRDIFF_MAX / sizeof(std::size_t).
vector_max_size == 536870911

sparse_set_new(indexer) ==
    [indexer_ |-> indexer, dense_ |-> [i \in {} |-> 0], sparse_ |-> [i \in {} |-> 0],
     size_ |-> 0, capacity_ |-> 0]

\* indexer_(v)
sparse_set_index(set, v) ==
    IF set.indexer_ = "entity_id_indexer" THEN entity_id_indexer(v)
    ELSE sparse_unsigned_indexer(v)

\* T(): the value of the elements reserve adds to dense_.
sparse_set_value_init(set) ==
    IF set.indexer_ = "entity_id_indexer" THEN null_id ELSE 0

sparse_set_max_size == vector_max_size

\* A plausible slip: the filter compares the index only, not the whole value.
sparse_set_has_by_index(set, v) ==
    LET vi == sparse_set_index(set, v)
    IN  /\ vi < set.capacity_
        /\ set.sparse_[vi] < set.size_
        /\ sparse_set_index(set, set.dense_[set.sparse_[vi]]) = vi

sparse_set_has(set, v) ==
    LET vi == sparse_set_index(set, v)
    IN  /\ vi < set.capacity_
        /\ set.sparse_[vi] < set.size_
        /\ set.dense_[set.sparse_[vi]] = v

\* std::length_error thrown by new_capacity_for_.
LengthError == -1

new_capacity_for_(set, nsize) ==
    LET ms == sparse_set_max_size
    IN  IF nsize > ms THEN LengthError
        ELSE IF set.capacity_ >= ms \div 2 THEN ms
        ELSE Max(set.capacity_ * 2, nsize)

sparse_set_reserve(set, ncapacity) ==
    IF ncapacity > set.capacity_
    THEN [set EXCEPT
            !.dense_ = [i \in 0 .. ncapacity - 1 |->
                          IF i < set.capacity_ THEN set.dense_[i]
                          ELSE sparse_set_value_init(set)],
            !.sparse_ = [i \in 0 .. ncapacity - 1 |->
                          IF i < set.capacity_ THEN set.sparse_[i] ELSE 0],
            !.capacity_ = ncapacity]
    ELSE set

\* insert(v) of a value the set does not hold, for a set known by its
\* capacity_ alone: [capacity_, outcome].  The writes dense_[size_] = v and
\* sparse_[vi] = size_ behind a capacity that does not cover vi are undefined
\* behaviour, whatever the build makes of them.
insert_growth(set, v, alloc_ok) ==
    LET vi == v
        ncap == new_capacity_for_(set, size_t_inc(vi))
    IN  IF size_t_less(vi, set.capacity_)
        THEN [capacity_ |-> set.capacity_, outcome |-> "inserted"]
        ELSE IF ncap = LengthError
        THEN [capacity_ |-> set.capacity_, outcome |-> "length_error"]
        ELSE IF ncap > set.capacity_ /\ ~alloc_ok
        THEN [capacity_ |-> set.capacity_, outcome |-> "bad_alloc"]
        ELSE [capacity_ |-> Max(ncap, set.capacity_),
              outcome |-> IF size_t_less(vi, Max(ncap, set.capacity_))
                          THEN "inserted" ELSE "undefined"]

\* A plausible slip: insert without the membership test.
sparse_set_insert_unchecked(set, v, alloc_ok) ==
    LET vi == sparse_set_index(set, v)
        grow == vi >= set.capacity_
        ncap == new_capacity_for_(set, size_t_inc(vi))
    IN  IF grow /\ (ncap = LengthError \/ ~alloc_ok)
        THEN [set |-> set, threw |-> TRUE, ret |-> FALSE]
        ELSE
            LET g == IF grow THEN sparse_set_reserve(set, ncap) ELSE set
            IN  [set |-> [g EXCEPT !.dense_[g.size_] = v,
                                   !.sparse_[vi] = g.size_,
                                   !.size_ = g.size_ + 1],
                 threw |-> FALSE, ret |-> TRUE]

\* insert: [set, threw, ret].  alloc_ok: the vectors of reserve can be allocated.
sparse_set_insert(set, v, alloc_ok) ==
    IF sparse_set_has(set, v)
    THEN [set |-> set, threw |-> FALSE, ret |-> FALSE]
    ELSE
        LET vi == sparse_set_index(set, v)
            grow == vi >= set.capacity_
            ncap == new_capacity_for_(set, size_t_inc(vi))
        IN  IF grow /\ (ncap = LengthError \/ ~alloc_ok)
            THEN [set |-> set, threw |-> TRUE, ret |-> FALSE]
            ELSE
                LET g == IF grow THEN sparse_set_reserve(set, ncap) ELSE set
                IN  [set |-> [g EXCEPT !.dense_[g.size_] = v,
                                       !.sparse_[vi] = g.size_,
                                       !.size_ = g.size_ + 1],
                     threw |-> FALSE, ret |-> TRUE]

\* A plausible slip: the last element is moved but its sparse_ slot is not fixed.
sparse_set_unordered_erase_nofix(set, v) ==
    IF ~sparse_set_has(set, v)
    THEN [set |-> set, ret |-> FALSE]
    ELSE
        LET index == set.sparse_[sparse_set_index(set, v)]
        IN  [set |-> [set EXCEPT !.dense_[index] = set.dense_[set.size_ - 1],
                                 !.size_ = set.size_ - 1],
             ret |-> TRUE]

\* A plausible slip: the last element is dropped, whatever the value erased.
sparse_set_unordered_erase_pop(set, v) ==
    IF ~sparse_set_has(set, v)
    THEN [set |-> set, ret |-> FALSE]
    ELSE [set |-> [set EXCEPT !.size_ = set.size_ - 1], ret |-> TRUE]

\* unordered_erase: [set, ret].
sparse_set_unordered_erase(set, v) ==
    IF ~sparse_set_has(set, v)
    THEN [set |-> set, ret |-> FALSE]
    ELSE
        LET vi == sparse_set_index(set, v)
            index == set.sparse_[vi]
            d == [set.dense_ EXCEPT ![index] = set.dense_[set.size_ - 1]]
        IN  [set |-> [set EXCEPT !.dense_ = d,
                                 !.sparse_[sparse_set_index(set, d[index])] = index,
                                 !.size_ = set.size_ - 1],
             ret |-> TRUE]

\* clear: size_ = 0; dense_, sparse_ and capacity_ stay.
sparse_set_clear(set) == [set EXCEPT !.size_ = 0]

\* find_index: [first, second]; first is size_t(-1) when absent, held as -1.
sparse_set_find_index(set, v) ==
    IF sparse_set_has(set, v)
    THEN [first |-> set.sparse_[sparse_set_index(set, v)], second |-> TRUE]
    ELSE [first |-> -1, second |-> FALSE]

\* begin() .. end(): the values of dense_[0 .. size_), in order.
sparse_set_items(set) == [p \in 1 .. set.size_ |-> set.dense_[p - 1]]

(***************************************************************************)
(* detail::sparse_map: keys_ is a sparse_set, values_ a std::vector held   *)
(* as a sequence (values_[i] of the source is values_[i + 1] here).        *)
(***************************************************************************)
sparse_map_new(indexer) == [keys_ |-> sparse_set_new(indexer), values_ |-> <<>>]

pop_back(vec) == SubSeq(vec, 1, Len(vec) - 1)

sparse_map_has(map, k) == sparse_set_has(map.keys_, k)

\* A plausible slip: the insert of a key the map holds stores the new value.
sparse_map_insert_overwrite(map, k, v, alloc_ok) ==
    IF sparse_set_has(map.keys_, k)
    THEN [map |-> [map EXCEPT
                      !.values_[sparse_set_find_index(map.keys_, k).first + 1] = v],
          threw |-> FALSE, ret |-> FALSE]
    ELSE
        LET pushed == Append(map.values_, v)
            r == sparse_set_insert(map.keys_, k, alloc_ok)
        IN  IF r.threw
            THEN [map |-> [keys_ |-> r.set, values_ |-> pop_back(pushed)],
                  threw |-> TRUE, ret |-> FALSE]
            ELSE [map |-> [keys_ |-> r.set, values_ |-> pushed],
                  threw |-> FALSE, ret |-> r.ret]

\* insert(k, v): [map, threw, ret].
sparse_map_insert(map, k, v, alloc_ok) ==
    IF sparse_set_has(map.keys_, k)
    THEN [map |-> map, threw |-> FALSE, ret |-> FALSE]
    ELSE
        LET pushed == Append(map.values_, v)
            r == sparse_set_insert(map.keys_, k, alloc_ok)
        IN  IF r.threw
            THEN [map |-> [keys_ |-> r.set, values_ |-> pop_back(pushed)],
                  threw |-> TRUE, ret |-> FALSE]
            ELSE [map |-> [keys_ |-> r.set, values_ |-> pushed],
                  threw |-> FALSE, ret |-> r.ret]

\* A plausible slip: the value pushed is not popped when keys_.insert throws.
sparse_map_emplace_norollback(map, k, v, alloc_ok) ==
    IF sparse_set_has(map.keys_, k)
    THEN [map |-> map, threw |-> FALSE, ret |-> FALSE]
    ELSE
        LET pushed == Append(map.values_, v)
            r == sparse_set_insert(map.keys_, k, alloc_ok)
        IN  [map |-> [keys_ |-> r.set, values_ |-> pushed],
             threw |-> r.threw, ret |-> r.ret]

\* emplace(k, args...): [map, threw, ret].
sparse_map_emplace(map, k, v, alloc_ok) ==
    IF sparse_set_has(map.keys_, k)
    THEN [map |-> map, threw |-> FALSE, ret |-> FALSE]
    ELSE
        LET pushed == Append(map.values_, v)
            r == sparse_set_insert(map.keys_, k, alloc_ok)
        IN  IF r.threw
            THEN [map |-> [keys_ |-> r.set, values_ |-> pop_back(pushed)],
                  threw |-> TRUE, ret |-> FALSE]
            ELSE [map |-> [keys_ |-> r.set, values_ |-> pushed],
                  threw |-> FALSE, ret |-> r.ret]

\* A plausible slip: the last value is popped without being moved to the
\* position of the erased key.
sparse_map_unordered_erase_nomove(map, k) ==
    IF ~sparse_set_has(map.keys_, k)
    THEN [map |-> map, ret |-> FALSE]
    ELSE [map |-> [keys_ |-> sparse_set_unordered_erase(map.keys_, k).set,
                   values_ |-> pop_back(map.values_)],
          ret |-> TRUE]

\* unordered_erase: [map, ret].
sparse_map_unordered_erase(map, k) ==
    IF ~sparse_set_has(map.keys_, k)
    THEN [map |-> map, ret |-> FALSE]
    ELSE
        LET index == sparse_set_find_index(map.keys_, k).first
            moved == [map.values_ EXCEPT ![index + 1] = map.values_[Len(map.values_)]]
        IN  [map |-> [keys_ |-> sparse_set_unordered_erase(map.keys_, k).set,
                      values_ |-> pop_back(moved)],
             ret |-> TRUE]

\* clear: keys_.clear(); values_.clear().
sparse_map_clear(map) == [keys_ |-> sparse_set_clear(map.keys_), values_ |-> <<>>]

\* The null pointer of find_value / find / find_component.
nullptr == [present |-> FALSE, pos |-> -1, value |-> 0]

\* find_value: a pointer to values_[pos], held with the value it points to.
sparse_map_find_value(map, k) ==
    LET ip == sparse_set_find_index(map.keys_, k)
    IN  IF ip.second
        THEN [present |-> TRUE, pos |-> ip.first, value |-> map.values_[ip.first + 1]]
        ELSE nullptr

\* get_value(k) of a key that is present (of any other key it throws
\* std::logic_error, here an index outside values_).
sparse_map_get_value(map, k) ==
    map.values_[sparse_set_find_index(map.keys_, k).first + 1]

\* begin() .. end(): the keys in dense order.
sparse_map_keys(map) == sparse_set_items(map.keys_)

(***************************************************************************)
(* detail::component_storage<T>: components_ is a sparse_map from          *)
(* entity_id (indexed by entity_id_indexer) to T.                          *)
(***************************************************************************)
component_storage_new == [components_ |-> sparse_map_new("entity_id_indexer")]

\* A plausible slip: the component of an id that has one is left as it is.
component_storage_assign_keep(storage, id, v, alloc_ok) ==
    LET r == sparse_map_emplace(storage.components_, id, v, alloc_ok)
    IN  [storage |-> [components_ |-> r.map], threw |-> r.threw]

\* assign: [storage, threw].
component_storage_assign(storage, id, v, alloc_ok) ==
    LET r == sparse_map_emplace(storage.components_, id, v, alloc_ok)
    IN  IF r.threw
        THEN [storage |-> [components_ |-> r.map], threw |-> TRUE]
        ELSE IF ~r.ret
        THEN LET index == sparse_set_find_index(r.map.keys_, id).first
             IN  [storage |-> [components_ |->
                                 [r.map EXCEPT !.values_[index + 1] = v]],
                  threw |-> FALSE]
        ELSE [storage |-> [components_ |-> r.map], threw |-> FALSE]

\* A plausible slip: the last component is popped without being moved to the
\* position of the removed one.
component_storage_remove_nomove(storage, id) ==
    LET r == sparse_map_unordered_erase_nomove(storage.components_, id)
    IN  [storage |-> [components_ |-> r.map], ret |-> r.ret]

\* A plausible slip: the entries behind the removed one move up by one, as
\* an erase that keeps the order does.
component_storage_remove_ordered(storage, id) ==
    LET map == storage.components_
        at == sparse_set_find_index(map.keys_, id)
        n == map.keys_.size_
        dense == [p \in DOMAIN map.keys_.dense_ |->
                     IF p >= at.first /\ p < n - 1
                     THEN map.keys_.dense_[p + 1] ELSE map.keys_.dense_[p]]
        sparse == [j \in DOMAIN map.keys_.sparse_ |->
                      IF \E p \in 0 .. n - 2 : sparse_set_index(map.keys_, dense[p]) = j
                      THEN CHOOSE p \in 0 .. n - 2 : sparse_set_index(map.keys_, dense[p]) = j
                      ELSE map.keys_.sparse_[j]]
        values == [p \in 1 .. n - 1 |->
                      IF p >= at.first + 1 THEN map.values_[p + 1] ELSE map.values_[p]]
    IN  IF ~at.second
        THEN [storage |-> storage, ret |-> FALSE]
        ELSE [storage |-> [components_ |->
                              [keys_ |-> [map.keys_ EXCEPT !.dense_ = dense,
                                                           !.sparse_ = sparse,
                                                           !.size_ = n - 1],
                               values_ |-> values]],
              ret |-> TRUE]

\* remove: [storage, ret].
component_storage_remove(storage, id) ==
    LET r == sparse_map_unordered_erase(storage.components_, id)
    IN  [storage |-> [components_ |-> r.map], ret |-> r.ret]

component_storage_exists(storage, id) ==
    sparse_map_has(storage.components_, id)

\* A plausible slip: the storage looks the component up by the index part of
\* the id alone, whatever the generation.
component_storage_find_by_index(storage, id) ==
    LET keys == storage.components_.keys_
        vi == entity_id_index(id)
    IN  IF /\ vi < keys.capacity_
           /\ keys.sparse_[vi] < keys.size_
           /\ entity_id_index(keys.dense_[keys.sparse_[vi]]) = vi
        THEN [present |-> TRUE, pos |-> keys.sparse_[vi],
              value |-> storage.components_.values_[keys.sparse_[vi] + 1]]
        ELSE nullptr

component_storage_find(storage, id) ==
    sparse_map_find_value(storage.components_, id)

\* for_each_component(f) with a visitor f that changes nothing: the calls of
\* f in order, each with the handle e and the components cs it is given.
component_storage_for_each_component(storage) ==
    [p \in 1 .. storage.components_.keys_.size_ |->
        LET id == sparse_map_keys(storage.components_)[p]
        IN  [e |-> id, cs |-> <<sparse_map_get_value(storage.components_, id)>>]]

(***************************************************************************)
(* detail::type_family<T>::id(): [s, ret].  family_id is std::uint16_t.    *)
(***************************************************************************)
family_id_bits == 16

\* A plausible slip: the id is not kept in a static of the type, every use
\* takes the next one.
type_family_id_uncached(s, T) ==
    LET id == (s.last_id_ + 1) % Pow2(family_id_bits)
    IN  [s |-> [s EXCEPT !.last_id_ = id, !.self_id[T] = id], ret |-> id]

type_family_id(s, T) ==
    IF s.self_id[T] = 0
    THEN LET id == (s.last_id_ + 1) % Pow2(family_id_bits)
         IN  [s |-> [s EXCEPT !.last_id_ = id, !.self_id[T] = id], ret |-> id]
    ELSE [s |-> s, ret |-> s.self_id[T]]

(***************************************************************************)
(* registry.  The state s of a call: the registry's fields and the         *)
(* type-family statics.  A storage pointer is the position of the storage  *)
(* in storages_.values_, -1 for nullptr.                                   *)
(***************************************************************************)
null_storage == -1

\* A plausible slip: the lookup creates the storage it does not find.
find_storage_creating(s, T) ==
    LET fam == type_family_id(s, T)
        r == sparse_map_emplace(fam.s.storages_, fam.ret, component_storage_new, TRUE)
    IN  [s |-> [fam.s EXCEPT !.storages_ = r.map],
         ret |-> sparse_set_find_index(r.map.keys_, fam.ret).first]

\* find_storage_<T>(): [s, ret].
find_storage_(s, T) ==
    LET fam == type_family_id(s, T)
        family == fam.ret
    IN  [s |-> fam.s,
         ret |-> IF sparse_map_has(fam.s.storages_, family)
                 THEN sparse_set_find_index(fam.s.storages_.keys_, family).first
                 ELSE null_storage]

\* get_or_create_storage_<T>(): [s, threw, ret].
get_or_create_storage_(s, T, alloc_ok) ==
    LET found == find_storage_(s, T)
    IN  IF found.ret # null_storage
        THEN [s |-> found.s, threw |-> FALSE, ret |-> found.ret]
        ELSE
            LET fam == type_family_id(found.s, T)
                r == sparse_map_emplace(fam.s.storages_, fam.ret, component_storage_new,
                                        alloc_ok)
                s2 == [fam.s EXCEPT !.storages_ = r.map]
            IN  IF r.threw
                THEN [s |-> s2, threw |-> TRUE, ret |-> null_storage]
                ELSE [s |-> s2, threw |-> FALSE,
                      ret |-> sparse_set_find_index(r.map.keys_, fam.ret).first]

is_entity_alive_impl_(s, ent) == sparse_set_has(s.entity_ids_, ent)

is_entity_alive(s, ent) == is_entity_alive_impl_(s, ent)

\* The loop of remove_all_components_impl_ from dense position p of storages_
\* on: [s, ret], ret the components removed.
\* A plausible slip: the loop stops at the first storage that held an entry.
RECURSIVE remove_all_loop_first(_, _, _)
remove_all_loop_first(s, ent, p) ==
    IF p >= s.storages_.keys_.size_
    THEN [s |-> s, ret |-> 0]
    ELSE
        LET id == s.storages_.keys_.dense_[p]
            at == sparse_set_find_index(s.storages_.keys_, id).first
            r == component_storage_remove(s.storages_.values_[at + 1], ent)
        IN  IF r.ret
            THEN [s |-> [s EXCEPT !.storages_.values_[at + 1] = r.storage], ret |-> 1]
            ELSE remove_all_loop_first(s, ent, p + 1)

RECURSIVE remove_all_loop(_, _, _)
remove_all_loop(s, ent, p) ==
    IF p >= s.storages_.keys_.size_
    THEN [s |-> s, ret |-> 0]
    ELSE
        LET id == s.storages_.keys_.dense_[p]
            at == sparse_set_find_index(s.storages_.keys_, id).first
            r == component_storage_remove(s.storages_.values_[at + 1], ent)
            rest == remove_all_loop([s EXCEPT !.storages_.values_[at + 1] = r.storage],
                                    ent, p + 1)
        IN  [s |-> rest.s, ret |-> (IF r.ret THEN 1 ELSE 0) + rest.ret]

\* A plausible slip: nothing is removed.
remove_all_components_none(s, ent) == [s |-> s, ret |-> 0]

\* A plausible slip: every storage is cleared, not the entries of ent alone.
remove_all_components_clear(s, ent) ==
    IF ~is_entity_alive_impl_(s, ent)
    THEN [s |-> s, ret |-> 0]
    ELSE [s |-> [s EXCEPT !.storages_.values_ =
                    [p \in 1 .. Len(@) |->
                        [components_ |-> sparse_map_clear(@[p].components_)]]],
          ret |-> remove_all_loop(s, ent, 0).ret]

remove_all_components_impl_(s, ent) ==
    IF ~is_entity_alive_impl_(s, ent)
    THEN [s |-> s, ret |-> 0]
    ELSE remove_all_loop(s, ent, 0)

remove_all_components(s, ent) == remove_all_components_impl_(s, ent)

\* A plausible slip: the free list is read from its front.
front(vec) == vec[1]

\* free_entity_ids_.back()
back(vec) == vec[Len(vec)]

\* A plausible slip: the generation of a recycled id is not bumped.
recycle_entity_id_same(free_ent_id) ==
    entity_id_join(entity_id_index(free_ent_id), entity_id_version(free_ent_id))

\* The id create_entity composes from the id it takes off the free list.
recycle_entity_id(free_ent_id) ==
    entity_id_join(entity_id_index(free_ent_id), entity_id_version(free_ent_id) + 1)

\* A plausible slip: last_entity_id_++ for ++last_entity_id_.
fresh_entity_id_post(s) == ToId(s.last_entity_id_)

\* The id of entity(*this, ++last_entity_id_).
fresh_entity_id(s) == ToId(s.last_entity_id_ + 1)

\* A plausible slip: <= for <.
index_space_left_inclusive(s) == s.last_entity_id_ <= entity_id_index_mask

\* last_entity_id_ < entity_id_index_mask
index_space_left(s) == s.last_entity_id_ < entity_id_index_mask

\* create_entity(): [s, threw, ret], ret the id of the returned entity.
\* A plausible slip: the recycled id stays on the free list.
create_entity_keep_free(s, alloc_ok) ==
    IF s.free_entity_ids_ # <<>>
    THEN
        LET new_ent_id == recycle_entity_id(back(s.free_entity_ids_))
            r == sparse_set_insert(s.entity_ids_, new_ent_id, alloc_ok)
        IN  IF r.threw
            THEN [s |-> s, threw |-> TRUE, ret |-> null_id]
            ELSE [s |-> [s EXCEPT !.entity_ids_ = r.set], threw |-> FALSE, ret |-> new_ent_id]
    ELSE
        LET bumped == [s EXCEPT !.last_entity_id_ = s.last_entity_id_ + 1]
            r == sparse_set_insert(bumped.entity_ids_, fresh_entity_id(s), alloc_ok)
        IN  IF r.threw
            THEN [s |-> bumped, threw |-> TRUE, ret |-> null_id]
            ELSE [s |-> [bumped EXCEPT !.entity_ids_ = r.set],
                  threw |-> FALSE, ret |-> fresh_entity_id(s)]

create_entity(s, alloc_ok) ==
    IF s.free_entity_ids_ # <<>>
    THEN
        LET free_ent_id == back(s.free_entity_ids_)
            new_ent_id == recycle_entity_id(free_ent_id)
            r == sparse_set_insert(s.entity_ids_, new_ent_id, alloc_ok)
        IN  IF r.threw
            THEN [s |-> s, threw |-> TRUE, ret |-> null_id]
            ELSE [s |-> [s EXCEPT !.entity_ids_ = r.set,
                                  !.free_entity_ids_ = pop_back(s.free_entity_ids_)],
                  threw |-> FALSE, ret |-> new_ent_id]
    ELSE IF index_space_left(s)
    THEN
        LET bumped == [s EXCEPT !.last_entity_id_ = s.last_entity_id_ + 1]
            id == fresh_entity_id(s)
            r == sparse_set_insert(bumped.entity_ids_, id, alloc_ok)
        IN  IF r.threw
            THEN [s |-> bumped, threw |-> TRUE, ret |-> null_id]
            ELSE [s |-> [bumped EXCEPT !.entity_ids_ = r.set],
                  threw |-> FALSE, ret |-> id]
    ELSE [s |-> s, threw |-> TRUE, ret |-> null_id]

\* A plausible slip: the entity goes, its components stay.
destroy_entity_keep_components(s, ent) ==
    LET r == sparse_set_unordered_erase(s.entity_ids_, ent)
    IN  IF r.ret
        THEN [s |-> [s EXCEPT !.entity_ids_ = r.set,
                              !.free_entity_ids_ = Append(@, ent)],
              ret |-> TRUE]
        ELSE [s |-> s, ret |-> FALSE]

\* A plausible slip: the id is pushed on the free list whatever the erase returned.
destroy_entity_always_push(s, ent) ==
    LET removed == remove_all_components_impl_(s, ent)
        r == sparse_set_unordered_erase(removed.s.entity_ids_, ent)
    IN  [s |-> [removed.s EXCEPT !.entity_ids_ = r.set,
                                 !.free_entity_ids_ = Append(@, ent)],
         ret |-> r.ret]

\* destroy_entity(ent): [s, ret].
destroy_entity(s, ent) ==
    LET removed == remove_all_components_impl_(s, ent)
        r == sparse_set_unordered_erase(removed.s.entity_ids_, ent)
    IN  IF r.ret
        THEN [s |-> [removed.s EXCEPT !.entity_ids_ = r.set,
                                      !.free_entity_ids_ = Append(@, ent)],
              ret |-> TRUE]
        ELSE [s |-> removed.s, ret |-> FALSE]

\* get_or_create_storage_<T>().assign(ent.id(), v); return true: [s, threw, ret].
\* alloc_storages, alloc_components: the growth of storages_ and of the
\* storage's components_ can be allocated.
assign_to_storage(s, T, ent, v, alloc_storages, alloc_components) ==
    LET got == get_or_create_storage_(s, T, alloc_storages)
    IN  IF got.threw
        THEN [s |-> got.s, threw |-> TRUE, ret |-> FALSE]
        ELSE
            LET a == component_storage_assign(got.s.storages_.values_[got.ret + 1],
                                              ent, v, alloc_components)
            IN  [s |-> [got.s EXCEPT !.storages_.values_[got.ret + 1] = a.storage],
                 threw |-> a.threw, ret |-> ~a.threw]

\* A plausible slip: the component is assigned whether or not ent is alive.
assign_component_unguarded(s, T, ent, v, alloc_storages, alloc_components) ==
    assign_to_storage(s, T, ent, v, alloc_storages, alloc_components)

\* A plausible slip: the storage is fetched (and created) before the alive test.
assign_component_storage_first(s, T, ent, v, alloc_storages, alloc_components) ==
    LET got == get_or_create_storage_(s, T, alloc_storages)
    IN  IF got.threw
        THEN [s |-> got.s, threw |-> TRUE, ret |-> FALSE]
        ELSE IF ~is_entity_alive_impl_(got.s, ent)
        THEN [s |-> got.s, threw |-> FALSE, ret |-> FALSE]
        ELSE assign_to_storage(s, T, ent, v, alloc_storages, alloc_components)

\* assign_component<T>(ent, v): [s, threw, ret].
assign_component(s, T, ent, v, alloc_storages, alloc_components) ==
    IF ~is_entity_alive_impl_(s, ent)
    THEN [s |-> s, threw |-> FALSE, ret |-> FALSE]
    ELSE assign_to_storage(s, T, ent, v, alloc_storages, alloc_components)

\* remove_component<T>(ent): [s, ret].
remove_component(s, T, ent) ==
    IF ~is_entity_alive_impl_(s, ent)
    THEN [s |-> s, ret |-> FALSE]
    ELSE
        LET found == find_storage_(s, T)
        IN  IF found.ret # null_storage
            THEN LET r == component_storage_remove(
                              found.s.storages_.values_[found.ret + 1], ent)
                 IN  [s |-> [found.s EXCEPT !.storages_.values_[found.ret + 1] = r.storage],
                      ret |-> r.ret]
            ELSE [s |-> found.s, ret |-> FALSE]

\* exists_component<T>(ent): [s, ret].
exists_component(s, T, ent) ==
    IF ~is_entity_alive_impl_(s, ent)
    THEN [s |-> s, ret |-> FALSE]
    ELSE
        LET found == find_storage_(s, T)
        IN  [s |-> found.s,
             ret |-> IF found.ret # null_storage
                     THEN component_storage_exists(
                              found.s.storages_.values_[found.ret + 1], ent)
                     ELSE FALSE]

\* find_component_impl_<T>(ent): [s, ret], ret a pointer or nullptr.
find_component_impl_(s, T, ent) ==
    LET found == find_storage_(s, T)
    IN  [s |-> found.s,
         ret |-> IF found.ret # null_storage
                 THEN component_storage_find(
                          found.s.storages_.values_[found.ret + 1], ent)
                 ELSE nullptr]

find_component(s, T, ent) == find_component_impl_(s, T, ent)

\* A plausible slip: the null pointer is dereferenced instead of thrown for.
get_component_no_throw(s, T, ent) ==
    LET component == find_component_impl_(s, T, ent)
    IN  [s |-> component.s, threw |-> FALSE, ret |-> component.ret]

\* get_component<T>(ent): [s, threw, ret]; throws std::logic_error when not found.
get_component(s, T, ent) ==
    LET component == find_component_impl_(s, T, ent)
    IN  [s |-> component.s, threw |-> ~component.ret.present, ret |-> component.ret]

\* for_each_component<T>(f), f changing nothing: [s, calls].
for_each_component(s, T) ==
    LET storage == find_storage_(s, T)
    IN  [s |-> storage.s,
         calls |-> IF storage.ret # null_storage
                   THEN component_storage_for_each_component(
                            storage.s.storages_.values_[storage.ret + 1])
                   ELSE <<>>]

\* The calls find_storage_<Ts>()... of one pack expansion, made in the order
\* of the sequence: the state afterwards.
RECURSIVE find_storages_(_, _)
find_storages_(s, Ts) ==
    IF Ts = <<>> THEN s ELSE find_storages_(find_storage_(s, Head(Ts)).s, Tail(Ts))

Reverse(seq) == [i \in 1 .. Len(seq) |-> seq[Len(seq) + 1 - i]]

\* The arguments of std::make_tuple are evaluated in an order the build
\* chooses.
ArgOrders == {"left_to_right", "right_to_left"}

\* A plausible slip: an entity without the probed component is passed on.
RECURSIVE for_joined_components_impl_e_unprobed(_, _, _, _)
for_joined_components_impl_e_unprobed(s, e, ss, cs) ==
    IF ss = <<>>
    THEN <<[e |-> e, cs |-> cs]>>
    ELSE
        LET c == component_storage_find(s.storages_.values_[Head(ss) + 1], e)
        IN  for_joined_components_impl_e_unprobed(s, e, Tail(ss), Append(cs, c.value))

\* for_joined_components_impl_(e, f, ss, cs...): the calls of f, none or one.
RECURSIVE for_joined_components_impl_e(_, _, _, _)
for_joined_components_impl_e(s, e, ss, cs) ==
    IF ss = <<>>
    THEN <<[e |-> e, cs |-> cs]>>
    ELSE
        LET c == component_storage_find(s.storages_.values_[Head(ss) + 1], e)
        IN  IF c.present
            THEN for_joined_components_impl_e(s, e, Tail(ss), Append(cs, c.value))
            ELSE <<>>

\* The lambda of for_joined_components_impl_ over the calls of
\* for_each_component<T>, from call p on.
RECURSIVE for_joined_components_loop(_, _, _, _)
for_joined_components_loop(s, each, ss, p) ==
    IF p > Len(each)
    THEN <<>>
    ELSE for_joined_components_impl_e(s, each[p].e, ss, each[p].cs)
             \o for_joined_components_loop(s, each, ss, p + 1)

\* A plausible slip: a probed type without a storage constrains nothing.
for_joined_components_impl_lenient(s, Ts, order) ==
    LET probed == Tail(Ts)
        s1 == find_storages_(s, IF order = "left_to_right" THEN probed ELSE Reverse(probed))
        ss == [i \in 1 .. Len(probed) |-> find_storage_(s1, probed[i]).ret]
        each == for_each_component(s1, Head(Ts))
    IN  [s |-> each.s,
         calls |-> for_joined_components_loop(
                       each.s, each.calls, SelectSeq(ss, LAMBDA q : q # null_storage), 1)]

\* for_joined_components_impl_<T, Ts...>(f, iseq), f changing nothing:
\* [s, calls].  Ts = <<T, Ts...>>.
for_joined_components_impl_(s, Ts, order) ==
    LET probed == Tail(Ts)
        s1 == find_storages_(s, IF order = "left_to_right" THEN probed ELSE Reverse(probed))
        ss == [i \in 1 .. Len(probed) |-> find_storage_(s1, probed[i]).ret]
    IN  IF \E i \in 1 .. Len(ss) : ss[i] = null_storage
        THEN [s |-> s1, calls |-> <<>>]
        ELSE
            LET each == for_each_component(s1, Head(Ts))
            IN  [s |-> each.s,
                 calls |-> for_joined_components_loop(each.s, each.calls, ss, 1)]

for_joined_components(s, Ts, order) == for_joined_components_impl_(s, Ts, order)

(***************************************************************************)
(* The state machine.                                                      *)
(***************************************************************************)
\* The state of the program as the record the handlers take.
State == [last_entity_id_ |-> last_entity_id_,
          free_entity_ids_ |-> free_entity_ids_,
          entity_ids_ |-> entity_ids_,
          storages_ |-> storages_,
          last_id_ |-> last_id_,
          self_id |-> self_id]

\* The variables take the state a handler leaves.
Commit(s) ==
    /\ last_entity_id_' = s.last_entity_id_
    /\ free_entity_ids_' = s.free_entity_ids_
    /\ entity_ids_' = s.entity_ids_
    /\ storages_' = s.storages_
    /\ last_id_' = s.last_id_
    /\ self_id' = s.self_id

\* The handles the environment passes when it allocates the indices 1 .. n and
\* recycles up to generation g: the null handle, and every generation of every
\* index (an index above last_entity_id_ is a handle never allocated, a
\* generation other than the slot's a stale or a future one).
HandlesOf(n, g) == {null_id} \cup {U32(i, v) : i \in 1 .. n, v \in 0 .. g}

\* The environment stops asking for fresh indices at n.
FreshBound(n) == free_entity_ids_ = <<>> => last_entity_id_ < n

\* The environment stops recycling a slot at generation g.
RecycleBound(g) ==
    free_entity_ids_ # <<>> => entity_id_version(back(free_entity_ids_)) < g

\* registry() = default, and the statics before any type is used.
Init ==
    /\ last_entity_id_ = 0
    /\ free_entity_ids_ = <<>>
    /\ entity_ids_ = sparse_set_new("entity_id_indexer")
    /\ storages_ = sparse_map_new("sparse_unsigned_indexer")
    /\ last_id_ = 0
    /\ self_id = [T \in JoinTypes |-> 0]
    /\ watch = [set |-> FALSE, e |-> null_id, n |-> 0, first |-> null_id]
    /\ cycles = [started |-> FALSE, first |-> null_id, cur |-> null_id, n |-> 0]
    /\ sset = sparse_set_new("sparse_unsigned_indexer")
    /\ smap = sparse_map_new("sparse_unsigned_indexer")
    /\ stored = [k \in {} |-> 0]
    /\ bigset = [capacity_ |-> 0, outcome |-> "none"]
    /\ alloc_hist = [failed |-> FALSE, latest |-> [i \in {} |-> null_id]]
    /\ second = [last_entity_id_ |-> 0,
                 free_entity_ids_ |-> <<>>,
                 entity_ids_ |-> sparse_set_new("entity_id_indexer"),
                 storages_ |-> sparse_map_new("sparse_unsigned_indexer")]

(***************************************************************************)
(* Spec: the registry under every call of the operations that change its   *)
(* state.  A read path changes nothing but the family id of a type on its  *)
(* first use: find_component does so for every handle, get_component goes  *)
(* through the same find_component_impl_, and exists_component only for    *)
(* an alive handle, as remove_component does.  FindComponent is the step   *)
(* of the three; the properties evaluate each of them in every reachable   *)
(* state.                                                                  *)
(***************************************************************************)
Handles == HandlesOf(MaxEntities, MaxVersion)

Values == 1 .. MaxValue

\* Which growth of an assign_component call cannot be allocated.
AllocFailures == {"none", "storages", "components"}

CreateEntity(alloc_ok) ==
    /\ FreshBound(MaxEntities)
    /\ RecycleBound(MaxVersion)
    /\ Commit(create_entity(State, alloc_ok).s)
    /\ UNCHANGED <<watch, cycles, container_vars, aux_vars>>

DestroyEntity(ent) ==
    /\ Commit(destroy_entity(State, ent).s)
    /\ UNCHANGED <<watch, cycles, container_vars, aux_vars>>

AssignComponent(T, ent, v, fails) ==
    /\ Commit(assign_component(State, T, ent, v,
                               fails # "storages", fails # "components").s)
    /\ UNCHANGED <<watch, cycles, container_vars, aux_vars>>

RemoveComponent(T, ent) ==
    /\ Commit(remove_component(State, T, ent).s)
    /\ UNCHANGED <<watch, cycles, container_vars, aux_vars>>

RemoveAllComponents(ent) ==
    /\ Commit(remove_all_components(State, ent).s)
    /\ UNCHANGED <<watch, cycles, container_vars, aux_vars>>

FindComponent(T, ent) ==
    /\ Commit(find_component(State, T, ent).s)
    /\ UNCHANGED <<watch, cycles, container_vars, aux_vars>>

Next ==
    \/ \E alloc_ok \in BOOLEAN : CreateEntity(alloc_ok)
    \/ \E ent \in Handles : DestroyEntity(ent)
    \/ \E T \in Types, ent \in Handles, v \in Values, fails \in AllocFailures :
           AssignComponent(T, ent, v, fails)
    \/ \E T \in Types, ent \in Handles : RemoveComponent(T, ent)
    \/ \E ent \in Handles : RemoveAllComponents(ent)
    \/ \E T \in Types, ent \in Handles : FindComponent(T, ent)

Spec == Init /\ [][Next]_vars

(***************************************************************************)
(* SpecAlloc: the allocator under every sequence of create_entity and      *)
(* destroy_entity calls.  watch follows the handle of the latest           *)
(* destroy_entity that returned true: the creates that succeeded since     *)
(* (n, counted to 2) and the first entity created since.                   *)
(***************************************************************************)
\* Fresh indices and generations of SpecAlloc.
MaxAllocEntities == 3
MaxAllocVersion == 2

AllocHandles == HandlesOf(MaxAllocEntities, MaxAllocVersion)

AllocCreate(alloc_ok) ==
    LET r == create_entity(State, alloc_ok)
    IN  /\ FreshBound(MaxAllocEntities)
        /\ RecycleBound(MaxAllocVersion)
        /\ Commit(r.s)
        /\ watch' = IF r.threw \/ ~watch.set THEN watch
                    ELSE [watch EXCEPT !.n = IF @ < 2 THEN @ + 1 ELSE @,
                                       !.first = IF watch.n = 0 THEN r.ret ELSE @]
        /\ UNCHANGED <<cycles, container_vars, aux_vars>>

AllocDestroy(ent) ==
    LET r == destroy_entity(State, ent)
    IN  /\ Commit(r.s)
        /\ watch' = IF r.ret
                    THEN [set |-> TRUE, e |-> ent, n |-> 0, first |-> null_id]
                    ELSE watch
        /\ UNCHANGED <<cycles, container_vars, aux_vars>>

NextAlloc ==
    \/ \E alloc_ok \in BOOLEAN : AllocCreate(alloc_ok)
    \/ \E ent \in AllocHandles : AllocDestroy(ent)

SpecAlloc == Init /\ [][NextAlloc]_vars

(***************************************************************************)
(* SpecCycle: entities created and destroyed through a single slot (an     *)
(* entity is created only when none is alive), through the whole range of  *)
(* the generation.  cycles follows the slot: the first id created, the     *)
(* latest id created, and the creates that recycled the slot (n).          *)
(***************************************************************************)
CycleHandles == {null_id, cycles.first, cycles.cur}

CycleCreate(alloc_ok) ==
    LET r == create_entity(State, alloc_ok)
    IN  /\ entity_ids_.size_ = 0
        /\ FreshBound(MaxEntities)
        /\ cycles.n < MaxCycles
        /\ Commit(r.s)
        /\ cycles' = IF r.threw THEN cycles
                     ELSE IF ~cycles.started
                     THEN [started |-> TRUE, first |-> r.ret, cur |-> r.ret, n |-> 0]
                     ELSE [cycles EXCEPT !.cur = r.ret, !.n = @ + 1]
        /\ UNCHANGED <<watch, container_vars, aux_vars>>

CycleDestroy(ent) ==
    /\ Commit(destroy_entity(State, ent).s)
    /\ UNCHANGED <<watch, cycles, container_vars, aux_vars>>

NextCycle ==
    \/ \E alloc_ok \in BOOLEAN : CycleCreate(alloc_ok)
    \/ \E ent \in CycleHandles : CycleDestroy(ent)

SpecCycle == Init /\ [][NextCycle]_vars

(***************************************************************************)
(* SpecLimit: the allocator at the end of the index space.  The registry   *)
(* starts where LimitBulk calls of create_entity on a fresh registry leave *)
(* it: the entities of index 1 .. LimitBulk alive at the dense positions   *)
(* 0 .. LimitBulk - 1, capacity_ grown by doubling to 2^22, the free list  *)
(* empty.  The environment holds no handle of those entities but the null  *)
(* handle, so no call reads or writes their elements of dense_ and         *)
(* sparse_; the functions hold the elements a call can reach (those of     *)
(* index 0 and of LimitBulk on), and TLC stops on an access outside them.  *)
(***************************************************************************)
\* Indices left at the start, and generations of the slots recycled.
MaxLimitFresh == 2
MaxLimitVersion == 2

LimitBulk == entity_id_index_mask - MaxLimitFresh

\* The elements of dense_ and sparse_ within reach.
LimitWindow == {0} \cup (LimitBulk .. entity_id_index_mask)

LimitHandles ==
    {null_id} \cup {U32(i, v) : i \in LimitBulk + 1 .. entity_id_index_mask,
                                v \in 0 .. MaxLimitVersion}

InitLimit ==
    /\ last_entity_id_ = LimitBulk
    /\ free_entity_ids_ = <<>>
    /\ entity_ids_ =
          [indexer_ |-> "entity_id_indexer",
           dense_ |-> [p \in LimitWindow |-> IF p < LimitBulk THEN ToId(p + 1) ELSE null_id],
           sparse_ |-> [i \in LimitWindow |-> IF 0 < i /\ i <= LimitBulk THEN i - 1 ELSE 0],
           size_ |-> LimitBulk,
           capacity_ |-> Pow2(entity_id_index_bits)]
    /\ storages_ = sparse_map_new("sparse_unsigned_indexer")
    /\ last_id_ = 0
    /\ self_id = [T \in JoinTypes |-> 0]
    /\ watch = [set |-> FALSE, e |-> null_id, n |-> 0, first |-> null_id]
    /\ cycles = [started |-> FALSE, first |-> null_id, cur |-> null_id, n |-> 0]
    /\ sset = sparse_set_new("sparse_unsigned_indexer")
    /\ smap = sparse_map_new("sparse_unsigned_indexer")
    /\ stored = [k \in {} |-> 0]
    /\ bigset = [capacity_ |-> 0, outcome |-> "none"]
    /\ alloc_hist = [failed |-> FALSE, latest |-> [i \in {} |-> null_id]]
    /\ second = [last_entity_id_ |-> 0,
                 free_entity_ids_ |-> <<>>,
                 entity_ids_ |-> sparse_set_new("entity_id_indexer"),
                 storages_ |-> sparse_map_new("sparse_unsigned_indexer")]

LimitCreate(alloc_ok) ==
    /\ RecycleBound(MaxLimitVersion)
    /\ Commit(create_entity(State, alloc_ok).s)
    /\ UNCHANGED <<watch, cycles, container_vars, aux_vars>>

LimitDestroy(ent) ==
    /\ Commit(destroy_entity(State, ent).s)
    /\ UNCHANGED <<watch, cycles, container_vars, aux_vars>>

NextLimit ==
    \/ \E alloc_ok \in BOOLEAN : LimitCreate(alloc_ok)
    \/ \E ent \in LimitHandles : LimitDestroy(ent)

SpecLimit == InitLimit /\ [][NextLimit]_vars

(***************************************************************************)
(* SpecSet: a sparse_set of unsigned keys (sparse_unsigned_indexer, as the *)
(* key set of storages_) under every sequence of insert, unordered_erase,  *)
(* clear and reserve.  The keys are 0 .. MaxKey and the key                *)
(* vector_max_size, whose index no capacity reaches.                       *)
(***************************************************************************)
MaxKey == 2
MaxReserve == 4

SetKeys == (0 .. MaxKey) \cup {vector_max_size}

SetInsert(v, alloc_ok) ==
    /\ sset' = sparse_set_insert(sset, v, alloc_ok).set
    /\ UNCHANGED <<registry_vars, watch, cycles, smap, stored, aux_vars>>

SetUnorderedErase(v) ==
    /\ sset' = sparse_set_unordered_erase(sset, v).set
    /\ UNCHANGED <<registry_vars, watch, cycles, smap, stored, aux_vars>>

SetClear ==
    /\ sset' = sparse_set_clear(sset)
    /\ UNCHANGED <<registry_vars, watch, cycles, smap, stored, aux_vars>>

\* reserve(ncapacity): the allocation of the vectors throws before any change.
SetReserve(ncapacity, alloc_ok) ==
    /\ sset' = IF ncapacity > sset.capacity_ /\ ~alloc_ok THEN sset
               ELSE sparse_set_reserve(sset, ncapacity)
    /\ UNCHANGED <<registry_vars, watch, cycles, smap, stored, aux_vars>>

NextSet ==
    \/ \E v \in SetKeys, alloc_ok \in BOOLEAN : SetInsert(v, alloc_ok)
    \/ \E v \in SetKeys : SetUnorderedErase(v)
    \/ SetClear
    \/ \E ncapacity \in 0 .. MaxReserve, alloc_ok \in BOOLEAN : SetReserve(ncapacity, alloc_ok)

SpecSet == Init /\ [][NextSet]_vars

(***************************************************************************)
(* SpecMap: a sparse_map from unsigned keys to values under every sequence *)
(* of insert, emplace, unordered_erase and clear.  stored follows, per     *)
(* key, the value of the latest insert or emplace that returned true, up   *)
(* to the unordered_erase of the key or the clear that returned since.     *)
(***************************************************************************)
MaxMapKey == 2
MaxMapValue == 2

MapKeys == (0 .. MaxMapKey) \cup {vector_max_size}

MapValues == 1 .. MaxMapValue

\* stored after a call for key k and value v that returned ret.
Store(k, v, ret) ==
    IF ret
    THEN [j \in DOMAIN stored \cup {k} |-> IF j = k THEN v ELSE stored[j]]
    ELSE stored

MapInsert(k, v, alloc_ok) ==
    LET r == sparse_map_insert(smap, k, v, alloc_ok)
    IN  /\ smap' = r.map
        /\ stored' = Store(k, v, r.ret)
        /\ UNCHANGED <<registry_vars, watch, cycles, sset, aux_vars>>

MapEmplace(k, v, alloc_ok) ==
    LET r == sparse_map_emplace(smap, k, v, alloc_ok)
    IN  /\ smap' = r.map
        /\ stored' = Store(k, v, r.ret)
        /\ UNCHANGED <<registry_vars, watch, cycles, sset, aux_vars>>

MapUnorderedErase(k) ==
    LET r == sparse_map_unordered_erase(smap, k)
    IN  /\ smap' = r.map
        /\ stored' = IF r.ret THEN [j \in DOMAIN stored \ {k} |-> stored[j]] ELSE stored
        /\ UNCHANGED <<registry_vars, watch, cycles, sset, aux_vars>>

MapClear ==
    /\ smap' = sparse_map_clear(smap)
    /\ stored' = [j \in {} |-> 0]
    /\ UNCHANGED <<registry_vars, watch, cycles, sset, aux_vars>>

NextMap ==
    \/ \E k \in MapKeys, v \in MapValues, alloc_ok \in BOOLEAN : MapInsert(k, v, alloc_ok)
    \/ \E k \in MapKeys, v \in MapValues, alloc_ok \in BOOLEAN : MapEmplace(k, v, alloc_ok)
    \/ \E k \in MapKeys : MapUnorderedErase(k)
    \/ MapClear

SpecMap == Init /\ [][NextMap]_vars

(***************************************************************************)
(* SpecComp: the registry under every call of the operations that change   *)
(* its state, with component values that differ.                           *)
(***************************************************************************)
MaxCompEntities == 2
MaxCompVersion == 0
MaxCompValue == 2

CompHandles == HandlesOf(MaxCompEntities, MaxCompVersion)

CompValues == 1 .. MaxCompValue

CompCreate(alloc_ok) ==
    /\ FreshBound(MaxCompEntities)
    /\ RecycleBound(MaxCompVersion)
    /\ Commit(create_entity(State, alloc_ok).s)
    /\ UNCHANGED <<watch, cycles, container_vars, aux_vars>>

CompDestroy(ent) ==
    /\ Commit(destroy_entity(State, ent).s)
    /\ UNCHANGED <<watch, cycles, container_vars, aux_vars>>

CompAssign(T, ent, v, fails) ==
    /\ Commit(assign_component(State, T, ent, v,
                               fails # "storages", fails # "components").s)
    /\ UNCHANGED <<watch, cycles, container_vars, aux_vars>>

CompRemove(T, ent) ==
    /\ Commit(remove_component(State, T, ent).s)
    /\ UNCHANGED <<watch, cycles, container_vars, aux_vars>>

CompRemoveAll(ent) ==
    /\ Commit(remove_all_components(State, ent).s)
    /\ UNCHANGED <<watch, cycles, container_vars, aux_vars>>

CompFind(T, ent) ==
    /\ Commit(find_component(State, T, ent).s)
    /\ UNCHANGED <<watch, cycles, container_vars, aux_vars>>

NextComp ==
    \/ \E alloc_ok \in BOOLEAN : CompCreate(alloc_ok)
    \/ \E ent \in CompHandles : CompDestroy(ent)
    \/ \E T \in Types, ent \in CompHandles, v \in CompValues, fails \in AllocFailures :
           CompAssign(T, ent, v, fails)
    \/ \E T \in Types, ent \in CompHandles : CompRemove(T, ent)
    \/ \E ent \in CompHandles : CompRemoveAll(ent)
    \/ \E T \in Types, ent \in CompHandles : CompFind(T, ent)

SpecComp == Init /\ [][NextComp]_vars

(***************************************************************************)
(* SpecJoin: the registry of a program with three component types, which   *)
(* creates and destroys entities, assigns components and iterates with a   *)
(* visitor that changes nothing.  A component leaves with its entity.      *)
(***************************************************************************)
MaxJoinEntities == 2
MaxJoinVersion == 0
MaxJoinValue == 1
\* The longest type list of a for_joined_components.
MaxJoinTypes == 3

JoinHandles == HandlesOf(MaxJoinEntities, MaxJoinVersion)

JoinValues == 1 .. MaxJoinValue

\* The type lists T0..Tn of a for_joined_components: no type twice.
JoinLists ==
    {Ts \in UNION {[1 .. n -> JoinTypes] : n \in 1 .. MaxJoinTypes} :
        \A i \in 1 .. Len(Ts), j \in 1 .. Len(Ts) : Ts[i] = Ts[j] => i = j}

JoinCreate ==
    /\ FreshBound(MaxJoinEntities)
    /\ RecycleBound(MaxJoinVersion)
    /\ Commit(create_entity(State, TRUE).s)
    /\ UNCHANGED <<watch, cycles, container_vars, aux_vars>>

JoinDestroy(ent) ==
    /\ Commit(destroy_entity(State, ent).s)
    /\ UNCHANGED <<watch, cycles, container_vars, aux_vars>>

JoinAssign(T, ent, v) ==
    /\ Commit(assign_component(State, T, ent, v, TRUE, TRUE).s)
    /\ UNCHANGED <<watch, cycles, container_vars, aux_vars>>

JoinForEach(T) ==
    /\ Commit(for_each_component(State, T).s)
    /\ UNCHANGED <<watch, cycles, container_vars, aux_vars>>

JoinForJoined(Ts, order) ==
    /\ Commit(for_joined_components(State, Ts, order).s)
    /\ UNCHANGED <<watch, cycles, container_vars, aux_vars>>

NextJoin ==
    \/ JoinCreate
    \/ \E ent \in JoinHandles : JoinDestroy(ent)
    \/ \E T \in JoinTypes, ent \in JoinHandles, v \in JoinValues : JoinAssign(T, ent, v)
    \/ \E T \in JoinTypes : JoinForEach(T)
    \/ \E Ts \in JoinLists, order \in ArgOrders : JoinForJoined(Ts, order)

SpecJoin == Init /\ [][NextJoin]_vars

(***************************************************************************)
(* SpecEach: the registry of a program with the one component type C and   *)
(* four entities, which assigns the component, destroys entities and      *)
(* iterates with a visitor that changes nothing.  A component leaves with  *)
(* its entity.                                                             *)
(***************************************************************************)
MaxEachEntities == 4
MaxEachVersion == 0
MaxEachValue == 1

EachTypes == {"C"}

EachHandles == HandlesOf(MaxEachEntities, MaxEachVersion)

EachValues == 1 .. MaxEachValue

EachCreate ==
    /\ FreshBound(MaxEachEntities)
    /\ RecycleBound(MaxEachVersion)
    /\ Commit(create_entity(State, TRUE).s)
    /\ UNCHANGED <<watch, cycles, container_vars, aux_vars>>

EachDestroy(ent) ==
    /\ Commit(destroy_entity(State, ent).s)
    /\ UNCHANGED <<watch, cycles, container_vars, aux_vars>>

EachAssign(T, ent, v) ==
    /\ Commit(assign_component(State, T, ent, v, TRUE, TRUE).s)
    /\ UNCHANGED <<watch, cycles, container_vars, aux_vars>>

EachForEach(T) ==
    /\ Commit(for_each_component(State, T).s)
    /\ UNCHANGED <<watch, cycles, container_vars, aux_vars>>

NextEach ==
    \/ EachCreate
    \/ \E ent \in EachHandles : EachDestroy(ent)
    \/ \E T \in EachTypes, ent \in EachHandles, v \in EachValues : EachAssign(T, ent, v)
    \/ \E T \in EachTypes : EachForEach(T)

SpecEach == Init /\ [][NextEach]_vars

(***************************************************************************)
(* SpecFamily: two registries of one process, each with an entity and the  *)
(* components of three types; the type-family statics are the process's.   *)
(***************************************************************************)
MaxFamilyEntities == 1
MaxFamilyVersion == 0

FamilyHandles == HandlesOf(MaxFamilyEntities, MaxFamilyVersion)

\* The state a call on the second registry works on.
SecondState == [last_entity_id_ |-> second.last_entity_id_,
                free_entity_ids_ |-> second.free_entity_ids_,
                entity_ids_ |-> second.entity_ids_,
                storages_ |-> second.storages_,
                last_id_ |-> last_id_,
                self_id |-> self_id]

\* The second registry and the statics take the state a handler leaves.
CommitSecond(s) ==
    /\ second' = [last_entity_id_ |-> s.last_entity_id_,
                  free_entity_ids_ |-> s.free_entity_ids_,
                  entity_ids_ |-> s.entity_ids_,
                  storages_ |-> s.storages_]
    /\ last_id_' = s.last_id_
    /\ self_id' = s.self_id
    /\ UNCHANGED <<last_entity_id_, free_entity_ids_, entity_ids_, storages_>>

FamilyCreate ==
    /\ last_entity_id_ < MaxFamilyEntities
    /\ Commit(create_entity(State, TRUE).s)
    /\ UNCHANGED <<watch, cycles, container_vars, aux_vars>>

FamilyAssign(T, ent) ==
    /\ Commit(assign_component(State, T, ent, 1, TRUE, TRUE).s)
    /\ UNCHANGED <<watch, cycles, container_vars, aux_vars>>

FamilyFind(T, ent) ==
    /\ Commit(find_component(State, T, ent).s)
    /\ UNCHANGED <<watch, cycles, container_vars, aux_vars>>

SecondCreate ==
    /\ second.last_entity_id_ < MaxFamilyEntities
    /\ CommitSecond(create_entity(SecondState, TRUE).s)
    /\ UNCHANGED <<watch, cycles, container_vars, bigset, alloc_hist>>

SecondAssign(T, ent) ==
    /\ CommitSecond(assign_component(SecondState, T, ent, 1, TRUE, TRUE).s)
    /\ UNCHANGED <<watch, cycles, container_vars, bigset, alloc_hist>>

SecondFind(T, ent) ==
    /\ CommitSecond(find_component(SecondState, T, ent).s)
    /\ UNCHANGED <<watch, cycles, container_vars, bigset, alloc_hist>>

NextFamily ==
    \/ FamilyCreate
    \/ \E T \in JoinTypes, ent \in FamilyHandles : FamilyAssign(T, ent)
    \/ \E T \in JoinTypes, ent \in FamilyHandles : FamilyFind(T, ent)
    \/ SecondCreate
    \/ \E T \in JoinTypes, ent \in FamilyHandles : SecondAssign(T, ent)
    \/ \E T \in JoinTypes, ent \in FamilyHandles : SecondFind(T, ent)

SpecFamily == Init /\ [][NextFamily]_vars

(***************************************************************************)
(* SpecGrow: the growth of a sparse set of std::size_t keys, up to the      *)
(* longest vectors.  sset is a set with its vectors; bigset is a set whose  *)
(* vectors are too long to write down, known by its capacity_ and by the    *)
(* outcome of its latest insert: every insert is of a value it does not     *)
(* hold.  Nothing is known of a set after undefined behaviour.              *)
(***************************************************************************)
MaxGrowKey == 2

\* The keys at the ends of the range, and around half of max_size.
GrowKeys ==
    (0 .. MaxGrowKey)
        \cup ((vector_max_size \div 2 - 1) .. (vector_max_size \div 2 + 1))
        \cup ((vector_max_size - 2) .. vector_max_size)
        \cup {size_t_max}

GrowInsert(v, alloc_ok) ==
    /\ bigset.outcome # "undefined"
    /\ bigset' = insert_growth(bigset, v, alloc_ok)
    /\ UNCHANGED <<registry_vars, watch, cycles, container_vars, alloc_hist, second>>

GrowReserve(ncapacity, alloc_ok) ==
    /\ bigset.outcome # "undefined"
    /\ bigset' = [capacity_ |-> IF ncapacity > bigset.capacity_ /\ alloc_ok
                                 THEN ncapacity ELSE bigset.capacity_,
                   outcome |-> "none"]
    /\ UNCHANGED <<registry_vars, watch, cycles, container_vars, alloc_hist, second>>

NextGrow ==
    \/ \E v \in GrowKeys, alloc_ok \in BOOLEAN : GrowInsert(v, alloc_ok)
    \/ \E ncapacity \in GrowKeys \ {size_t_max}, alloc_ok \in BOOLEAN :
           GrowReserve(ncapacity, alloc_ok)
    \/ \E v \in SetKeys, alloc_ok \in BOOLEAN : SetInsert(v, alloc_ok)
    \/ \E v \in SetKeys : SetUnorderedErase(v)
    \/ SetClear
    \/ \E ncapacity \in 0 .. MaxReserve, alloc_ok \in BOOLEAN : SetReserve(ncapacity, alloc_ok)

SpecGrow == Init /\ [][NextGrow]_vars

(***************************************************************************)
(* SpecPart: the entity allocator under create_entity, with allocations    *)
(* that fail, and destroy_entity.  alloc_hist keeps whether a create_entity *)
(* has failed, and per index the id created last.                          *)
(***************************************************************************)
MaxPartEntities == 3
MaxPartVersion == 1

PartHandles == HandlesOf(MaxPartEntities, MaxPartVersion)

PartCreate(alloc_ok) ==
    LET r == create_entity(State, alloc_ok)
        i == entity_id_index(r.ret)
    IN  /\ FreshBound(MaxPartEntities)
        /\ RecycleBound(MaxPartVersion)
        /\ Commit(r.s)
        /\ alloc_hist' =
               IF r.threw
               THEN [alloc_hist EXCEPT !.failed = TRUE]
               ELSE [alloc_hist EXCEPT !.latest =
                        [j \in DOMAIN alloc_hist.latest \cup {i} |->
                            IF j = i THEN r.ret ELSE alloc_hist.latest[j]]]
        /\ UNCHANGED <<watch, cycles, container_vars, bigset, second>>

PartDestroy(ent) ==
    /\ Commit(destroy_entity(State, ent).s)
    /\ UNCHANGED <<watch, cycles, container_vars, aux_vars>>

NextPart ==
    \/ \E alloc_ok \in BOOLEAN : PartCreate(alloc_ok)
    \/ \E ent \in PartHandles : PartDestroy(ent)

SpecPart == Init /\ [][NextPart]_vars

(***************************************************************************)
(* Properties.                                                             *)
(***************************************************************************)
\* The ids of the alive entities: entity_ids_.dense_[0 .. size_).
LiveIds == {entity_ids_.dense_[p] : p \in 0 .. entity_ids_.size_ - 1}

\* Storage `storage` holds an entry whose key has index i.
StorageHoldsIndex(storage, i) ==
    LET keys == storage.components_.keys_
    IN  \E q \in 0 .. keys.size_ - 1 : entity_id_index(keys.dense_[q]) = i

\* Some storage of state s holds an entry at index i.
HasEntryAt(s, i) ==
    \E p \in 1 .. Len(s.storages_.values_) : StorageHoldsIndex(s.storages_.values_[p], i)

\* C1 (SpecAlloc): after destroy_entity(e) returned true, e is not alive, and
\* stays not alive through the create_entity calls that follow (and the
\* destroy_entity calls that return false), also once its index is in use
\* again; the first entity created after the destroy has the index of e and
\* the generation of e plus one.
C1_EntityFreshness ==
    watch.set =>
        /\ ~is_entity_alive(State, watch.e)
        /\ watch.n >= 1 =>
              /\ entity_id_index(watch.first) = entity_id_index(watch.e)
              /\ entity_id_version(watch.first) = entity_id_version(watch.e) + 1

\* Two entities were created since the destroy of watch.e, the first of them at
\* the index of watch.e and still alive.
C1_Witness ==
    /\ watch.set
    /\ watch.n = 2
    /\ is_entity_alive(State, watch.first)
    /\ entity_id_index(watch.first) = entity_id_index(watch.e)
    /\ watch.first # watch.e

\* C2 (Spec): a handle that is not alive (destroyed, of a stale or a future
\* generation, never allocated, null) gives no access to a component of any
\* type: exists_component is false, find_component is null, get_component
\* throws, remove_component and assign_component return false; also while an
\* alive entity at the index of the handle has the component.
C2_NoAccessWhenNotAlive ==
    \A ent \in Handles :
        ~is_entity_alive(State, ent) =>
            \A T \in Types :
                /\ ~exists_component(State, T, ent).ret
                /\ find_component(State, T, ent).ret = nullptr
                /\ get_component(State, T, ent).threw
                /\ ~remove_component(State, T, ent).ret
                /\ \A v \in Values, fails \in AllocFailures :
                       LET r == assign_component(State, T, ent, v,
                                                 fails # "storages", fails # "components")
                       IN  ~r.ret /\ ~r.threw

\* A handle is not alive while an alive entity at its index has a component.
C2_Witness ==
    \E ent \in Handles, live \in Handles, T \in Types :
        /\ ~is_entity_alive(State, ent)
        /\ is_entity_alive(State, live)
        /\ entity_id_index(live) = entity_id_index(ent)
        /\ exists_component(State, T, live).ret
        /\ find_component(State, T, live).ret.present
        /\ ~find_component(State, T, ent).ret.present

\* C3 (Spec): destroy_entity(e) on an alive e leaves no component of e of any
\* type and no entry at index(e) in any storage; an index without an alive
\* entity has no entry in any storage; and the entity create_entity returns
\* has no component of any type.
C3_ComponentsDieWithEntity ==
    /\ \A ent \in Handles :
           is_entity_alive(State, ent) =>
               LET after == destroy_entity(State, ent).s
               IN  /\ \A T \in Types : find_component(after, T, ent).ret = nullptr
                   /\ ~HasEntryAt(after, entity_id_index(ent))
    /\ \A i \in 0 .. MaxEntities :
           (\A id \in LiveIds : entity_id_index(id) # i) => ~HasEntryAt(State, i)
    /\ \A alloc_ok \in BOOLEAN :
           LET r == create_entity(State, alloc_ok)
           IN  ~r.threw =>
                 /\ \A T \in Types :
                        /\ find_component(r.s, T, r.ret).ret = nullptr
                        /\ ~exists_component(r.s, T, r.ret).ret
                 /\ ~HasEntryAt(r.s, entity_id_index(r.ret))
                 /\ remove_all_components(r.s, r.ret).ret = 0

\* An alive entity with components of both types, whose destroy removes them,
\* beside another entity that keeps its component.
C3_Witness ==
    \E ent \in Handles, other \in Handles :
        /\ ent # other
        /\ is_entity_alive(State, ent)
        /\ \A T \in Types : exists_component(State, T, ent).ret
        /\ \E T \in Types : exists_component(State, T, other).ret
        /\ LET after == destroy_entity(State, ent).s
           IN  /\ \A T \in Types : find_component(after, T, ent).ret = nullptr
               /\ \E T \in Types : exists_component(after, T, other).ret

\* C4 (Spec): whenever a storage has an entry at index i, the set of alive
\* entities holds an entity of index i.
C4_EntriesHaveLiveEntity ==
    \A p \in 1 .. Len(storages_.values_) :
        LET keys == storages_.values_[p].components_.keys_
        IN  \A q \in 0 .. keys.size_ - 1 :
                \E id \in LiveIds : entity_id_index(id) = entity_id_index(keys.dense_[q])

\* A storage holds an entry while a slot, destroyed with a component, is free.
C4_Witness ==
    /\ free_entity_ids_ # <<>>
    /\ \E p \in 1 .. Len(storages_.values_) :
           LET keys == storages_.values_[p].components_.keys_
           IN  /\ keys.size_ = 1
               /\ keys.capacity_ > 2
               /\ \E f \in 1 .. Len(free_entity_ids_) : keys.dense_[1] = free_entity_ids_[f]

\* C5 (SpecAlloc): no two alive entities share an index (so at most one alive
\* entity carries a given index and generation), whether the alive entities
\* are read from the dense array or asked for by handle, and create_entity
\* never returns an id that is alive when it is called.
C5_UniqueLiveIds ==
    /\ \A p, q \in 0 .. entity_ids_.size_ - 1 :
           p # q => entity_id_index(entity_ids_.dense_[p])
                        # entity_id_index(entity_ids_.dense_[q])
    /\ \A a, b \in AllocHandles :
           (/\ is_entity_alive(State, a)
            /\ is_entity_alive(State, b)
            /\ entity_id_index(a) = entity_id_index(b)) => a = b
    /\ \A id \in LiveIds : is_entity_alive(State, id)
    /\ \A alloc_ok \in BOOLEAN :
           LET r == create_entity(State, alloc_ok)
           IN  ~r.threw => ~is_entity_alive(State, r.ret)

\* Two entities are alive, one of them on a recycled slot, beside a free slot.
C5_Witness ==
    /\ entity_ids_.size_ >= 2
    /\ free_entity_ids_ # <<>>
    /\ \E id \in LiveIds : entity_id_version(id) >= 1

\* C6 (Spec): destroy_entity(e) returns true exactly when e is alive at the
\* call; then e is no longer alive and e.id is pushed once on the free list;
\* when it returns false the alive entities, the free list, last_entity_id_
\* and every storage are as before (the whole state is), so the components of
\* an alive entity at the index of e stay.
C6_DestroyResult ==
    \A ent \in Handles :
        LET r == destroy_entity(State, ent)
        IN  /\ r.ret = is_entity_alive(State, ent)
            /\ r.ret =>
                  /\ ~is_entity_alive(r.s, ent)
                  /\ r.s.free_entity_ids_ = Append(free_entity_ids_, ent)
                  /\ r.s.last_entity_id_ = last_entity_id_
                  /\ r.s.entity_ids_.size_ = entity_ids_.size_ - 1
            /\ ~r.ret => r.s = State

\* destroy_entity returns false for a stale handle while an alive entity at
\* its index has a component, which it keeps; another slot is free.
C6_Witness ==
    \E ent \in Handles, live \in Handles, T \in Types :
        /\ ~is_entity_alive(State, ent)
        /\ is_entity_alive(State, live)
        /\ entity_id_index(live) = entity_id_index(ent)
        /\ exists_component(State, T, live).ret
        /\ ~destroy_entity(State, ent).ret
        /\ exists_component(destroy_entity(State, ent).s, T, live).ret
        /\ free_entity_ids_ # <<>>

\* C7 (SpecAlloc): a create_entity that fails leaves the free list and
\* last_entity_id_ as they were.
C7_FailedCreateLeavesAllocator ==
    \A alloc_ok \in BOOLEAN :
        LET r == create_entity(State, alloc_ok)
        IN  r.threw => /\ r.s.free_entity_ids_ = free_entity_ids_
                       /\ r.s.last_entity_id_ = last_entity_id_

\* C8 (SpecAlloc): with a free id, create_entity takes the id f pushed last,
\* returns the id of index(f) and generation(f) + 1 and pops f; with none it
\* increments last_entity_id_ and returns the id of that index and generation
\* 0; the returned entity is alive after the call.  The id pushed last is the
\* top of the free list.
C8_CreateComposesIds ==
    /\ \A alloc_ok \in BOOLEAN :
           LET r == create_entity(State, alloc_ok)
               n == Len(free_entity_ids_)
           IN  ~r.threw =>
                 /\ n > 0 =>
                      /\ entity_id_index(r.ret) = entity_id_index(free_entity_ids_[n])
                      /\ entity_id_version(r.ret)
                            = entity_id_version(free_entity_ids_[n]) + 1
                      /\ r.s.free_entity_ids_ = SubSeq(free_entity_ids_, 1, n - 1)
                      /\ r.s.last_entity_id_ = last_entity_id_
                 /\ n = 0 =>
                      /\ r.s.last_entity_id_ = last_entity_id_ + 1
                      /\ entity_id_index(r.ret) = last_entity_id_ + 1
                      /\ entity_id_version(r.ret) = 0
                      /\ r.s.free_entity_ids_ = <<>>
                 /\ is_entity_alive(r.s, r.ret)
    /\ (watch.set /\ watch.n = 0) =>
           /\ free_entity_ids_ # <<>>
           /\ free_entity_ids_[Len(free_entity_ids_)] = watch.e

\* An entity created from the free list is alive on a recycled slot while
\* other ids wait on the free list.
C8_Witness ==
    /\ watch.set
    /\ watch.n >= 1
    /\ is_entity_alive(State, watch.first)
    /\ entity_id_version(watch.first) >= 1
    /\ Len(free_entity_ids_) >= 2

\* C9 (SpecCycle): through one slot, the id created by the n-th recycling has
\* the index of the first id and the generation n modulo 2^10; so the id
\* created after 2^10 recyclings is the first id again and the first handle is
\* alive again, and after fewer recyclings the first handle is not alive.
C9_GenerationWraps ==
    cycles.started =>
        /\ entity_id_index(cycles.cur) = entity_id_index(cycles.first)
        /\ entity_id_version(cycles.cur) = cycles.n % Pow2(entity_id_version_bits)
        /\ cycles.n = Pow2(entity_id_version_bits) =>
              /\ cycles.cur = cycles.first
              /\ entity_ids_.size_ = 1 => is_entity_alive(State, cycles.first)
        /\ (0 < cycles.n /\ cycles.n < Pow2(entity_id_version_bits)) =>
              /\ cycles.cur # cycles.first
              /\ ~is_entity_alive(State, cycles.first)

\* The slot was recycled 2^10 times and the first handle is alive.
C9_Witness ==
    /\ cycles.started
    /\ cycles.n = Pow2(entity_id_version_bits)
    /\ is_entity_alive(State, cycles.first)

\* C10 (SpecCycle): create_entity never returns the id 0, before and after the
\* generation wrapped, and the handle of id 0 is never alive.
C10_ZeroIdNeverAllocated ==
    /\ ~is_entity_alive(State, null_id)
    /\ null_id \notin LiveIds
    /\ cycles.started => (cycles.first # null_id /\ cycles.cur # null_id)
    /\ \A alloc_ok \in BOOLEAN :
           LET r == create_entity(State, alloc_ok)
           IN  ~r.threw => r.ret # null_id

\* The generation wrapped and an entity is alive.
C10_Witness ==
    /\ cycles.n > Pow2(entity_id_version_bits)
    /\ entity_ids_.size_ = 1
    /\ entity_id_version(cycles.cur) = 1

\* C11 (SpecLimit): last_entity_id_ never exceeds 2^22 - 1 and no call of
\* create_entity or destroy_entity lowers it; with the free list empty and
\* last_entity_id_ = 2^22 - 1 create_entity throws and leaves the state as it
\* was; with a free id it succeeds at that bound, returns an alive entity of
\* the recycled slot and leaves last_entity_id_ as it was.
C11_LastIndexBounded ==
    /\ last_entity_id_ <= entity_id_index_mask
    /\ \A ent \in LimitHandles :
           destroy_entity(State, ent).s.last_entity_id_ = last_entity_id_
    /\ \A alloc_ok \in BOOLEAN :
           LET r == create_entity(State, alloc_ok)
           IN  /\ r.s.last_entity_id_ >= last_entity_id_
               /\ r.s.last_entity_id_ <= entity_id_index_mask
               /\ (last_entity_id_ = entity_id_index_mask /\ free_entity_ids_ = <<>>) =>
                      /\ r.threw
                      /\ r.s = State
               /\ (last_entity_id_ = entity_id_index_mask /\ free_entity_ids_ # <<>>) =>
                      /\ ~r.threw
                      /\ is_entity_alive(r.s, r.ret)
                      /\ entity_id_index(r.ret) = entity_id_index(back(free_entity_ids_))
                      /\ r.s.last_entity_id_ = last_entity_id_
                      /\ Len(r.s.free_entity_ids_) = Len(free_entity_ids_) - 1

\* The index space is used up, the entity of the last index lives on a
\* recycled slot (a create_entity succeeded at the bound), and no id is free
\* (the next create_entity fails).
C11_Witness ==
    /\ last_entity_id_ = entity_id_index_mask
    /\ free_entity_ids_ = <<>>
    /\ is_entity_alive(State, U32(entity_id_index_mask, 1))
    /\ \A alloc_ok \in BOOLEAN : create_entity(State, alloc_ok).threw

\* The values of dense_[0 .. size_) of a sparse set.
DenseValues(set) == {set.dense_[p] : p \in 0 .. set.size_ - 1}

\* C12 (SpecSet): after every insert, unordered_erase, clear and reserve,
\* every value v of dense_[0 .. size_) has sparse_[index(v)] < size_ and
\* dense_[sparse_[index(v)]] = v, the values of dense_[0 .. size_) are
\* pairwise distinct, and has(v) is true exactly for them; dense_ and sparse_
\* have capacity_ elements each.  (The indexer is injective on the keys, as
\* sparse_unsigned_indexer is.)
C12_SparseSetBijection ==
    /\ DOMAIN sset.dense_ = 0 .. sset.capacity_ - 1
    /\ DOMAIN sset.sparse_ = 0 .. sset.capacity_ - 1
    /\ sset.size_ <= sset.capacity_
    /\ \A p \in 0 .. sset.size_ - 1 :
           LET v == sset.dense_[p]
               vi == sparse_set_index(sset, v)
           IN  /\ vi < sset.capacity_
               /\ sset.sparse_[vi] < sset.size_
               /\ sset.dense_[sset.sparse_[vi]] = v
               /\ sset.sparse_[vi] = p
    /\ \A p, q \in 0 .. sset.size_ - 1 : p # q => sset.dense_[p] # sset.dense_[q]
    /\ \A v \in SetKeys : sparse_set_has(sset, v) <=> v \in DenseValues(sset)

\* Two keys are present, and an absent key has a stale sparse_ slot that
\* points into dense_[0 .. size_).
C12_Witness ==
    /\ sset.size_ >= 2
    /\ \E k \in 0 .. MaxKey :
           /\ k < sset.capacity_
           /\ sset.sparse_[k] < sset.size_
           /\ sset.dense_[sset.sparse_[k]] # k
           /\ ~sparse_set_has(sset, k)

\* C13 (SpecSet): unordered_erase(v) of a present v returns true, makes
\* has(v) false, lowers size_ by exactly 1 and leaves the presence of every
\* other key as it was (whether or not v is the last element of dense_).
C13_EraseKeepsOthers ==
    \A v \in SetKeys :
        sparse_set_has(sset, v) =>
            LET r == sparse_set_unordered_erase(sset, v)
            IN  /\ r.ret
                /\ ~sparse_set_has(r.set, v)
                /\ r.set.size_ = sset.size_ - 1
                /\ \A w \in SetKeys \ {v} :
                       sparse_set_has(r.set, w) <=> sparse_set_has(sset, w)

\* An unordered_erase moved the last element: the element past size_ is the
\* copy left behind of a key still present, beside another present key.
C13_Witness ==
    /\ sset.size_ >= 2
    /\ sset.size_ < sset.capacity_
    /\ sset.dense_[sset.size_] # 0
    /\ sparse_set_has(sset, sset.dense_[sset.size_])
    /\ sset.sparse_[sset.dense_[sset.size_]] < sset.size_ - 1

\* C14 (SpecSet): insert(v) of an absent v (that does not throw) returns
\* true, places v at dense_[size_] and raises size_ by 1; insert(v) of a
\* present v returns false and changes nothing; unordered_erase(v) returns
\* true exactly when v is present and changes nothing otherwise; also for a
\* key erased before and a key at or above capacity_.
C14_InsertEraseResults ==
    \A v \in SetKeys :
        /\ \A alloc_ok \in BOOLEAN :
               LET r == sparse_set_insert(sset, v, alloc_ok)
               IN  IF sparse_set_has(sset, v)
                   THEN /\ ~r.threw
                        /\ ~r.ret
                        /\ r.set = sset
                   ELSE \/ r.threw /\ r.set = sset
                        \/ /\ ~r.threw
                           /\ r.ret
                           /\ r.set.dense_[sset.size_] = v
                           /\ r.set.size_ = sset.size_ + 1
                           /\ sparse_set_has(r.set, v)
        /\ LET e == sparse_set_unordered_erase(sset, v)
           IN  /\ e.ret <=> sparse_set_has(sset, v)
               /\ ~e.ret => e.set = sset

\* A key erased before (its copy lies past size_) is absent and its insert
\* returns true, as does the insert of an absent key at or above capacity_.
C14_Witness ==
    /\ sset.size_ >= 1
    /\ \E w \in 1 .. MaxKey :
           /\ ~sparse_set_has(sset, w)
           /\ \E p \in sset.size_ .. sset.capacity_ - 1 : sset.dense_[p] = w
           /\ sparse_set_insert(sset, w, TRUE).ret
    /\ \E v \in 0 .. MaxKey :
           /\ v >= sset.capacity_
           /\ sparse_set_insert(sset, v, TRUE).ret
           /\ sparse_set_insert(sset, v, FALSE).threw

\* C15 (SpecMap): after every insert, emplace, unordered_erase and clear the
\* map stores as many values as keys; for every present key k find_value(k)
\* points to the value stored last for k, at the dense position of k; for an
\* absent key find_value is null.
C15_MapParity ==
    /\ Len(smap.values_) = smap.keys_.size_
    /\ \A k \in MapKeys :
           LET f == sparse_map_find_value(smap, k)
           IN  IF sparse_map_has(smap, k)
               THEN /\ f.present
                    /\ k \in DOMAIN stored
                    /\ f.value = stored[k]
                    /\ smap.keys_.dense_[f.pos] = k
               ELSE f = nullptr

\* An unordered_erase moved the last key and its value to the position of
\* the erased key: the key past size_ is still present, with another key
\* that holds a different value.
C15_Witness ==
    /\ smap.keys_.size_ >= 2
    /\ smap.keys_.size_ < smap.keys_.capacity_
    /\ smap.keys_.dense_[smap.keys_.size_] # 0
    /\ sparse_map_has(smap, smap.keys_.dense_[smap.keys_.size_])
    /\ smap.keys_.sparse_[smap.keys_.dense_[smap.keys_.size_]] < smap.keys_.size_ - 1
    /\ \E j, k \in 0 .. MaxMapKey :
           /\ sparse_map_has(smap, j)
           /\ sparse_map_has(smap, k)
           /\ sparse_map_find_value(smap, j).value # sparse_map_find_value(smap, k).value

\* C16 (SpecMap): an insert or emplace that throws while it records the key
\* (the allocation of the growth fails, or the capacity needed exceeds
\* max_size) has popped the value it pushed: the map is as before the call,
\* with as many values as keys.
C16_InsertRollsBack ==
    \A k \in MapKeys, v \in MapValues, alloc_ok \in BOOLEAN :
        LET i == sparse_map_insert(smap, k, v, alloc_ok)
            e == sparse_map_emplace(smap, k, v, alloc_ok)
        IN  /\ i.threw =>
                  /\ i.map = smap
                  /\ Len(i.map.values_) = i.map.keys_.size_
            /\ e.threw =>
                  /\ e.map = smap
                  /\ Len(e.map.values_) = e.map.keys_.size_

\* The map holds an entry; the emplace of an absent key at or above
\* capacity_ throws when the growth cannot be allocated, and the insert of
\* the key vector_max_size throws for the capacity.
C16_Witness ==
    /\ smap.keys_.size_ >= 1
    /\ \E k \in 0 .. MaxMapKey :
           /\ k >= smap.keys_.capacity_
           /\ sparse_map_emplace(smap, k, 1, FALSE).threw
           /\ ~sparse_map_emplace(smap, k, 1, TRUE).threw
    /\ sparse_map_insert(smap, vector_max_size, 1, TRUE).threw

\* The fields of the registry in state s (the type-family statics left out).
RegistryOf(s) == <<s.last_entity_id_, s.free_entity_ids_, s.entity_ids_, s.storages_>>

\* The types of which handle ent has a component in state s.
TypesOf(s, ent) == {U \in Types : exists_component(s, U, ent).ret}

\* The component of type U that handle ent gives access to in state s: whether
\* there is one, and its value.
ComponentOf(s, U, ent) ==
    LET f == find_component(s, U, ent).ret
    IN  [present |-> f.present, value |-> f.value]

\* The storage of type T in state s has `n` components (0 when it has no storage).
StorageSize(s, T) ==
    LET found == find_storage_(s, T)
    IN  IF found.ret = null_storage THEN 0
        ELSE found.s.storages_.values_[found.ret + 1].components_.keys_.size_

\* C17 (SpecComp): for an alive entity e, assign_component<T>(e, a) followed
\* by assign_component<T>(e, b) leaves get_component<T>(e) = b; the second
\* assign leaves the size of the storage and the dense position of e as the
\* first left them, remove_all_components(e) counts T once, and every other
\* component is as the first assign left it.
C17_AssignOverwrites ==
    \A e \in CompHandles, T \in Types, a \in CompValues, b \in CompValues :
        is_entity_alive(State, e) =>
            LET r1 == assign_component(State, T, e, a, TRUE, TRUE)
                r2 == assign_component(r1.s, T, e, b, TRUE, TRUE)
                g == get_component(r2.s, T, e)
            IN  /\ r1.ret /\ ~r1.threw
                /\ r2.ret /\ ~r2.threw
                /\ ~g.threw
                /\ g.ret.value = b
                /\ g.ret.pos = get_component(r1.s, T, e).ret.pos
                /\ StorageSize(r2.s, T) = StorageSize(r1.s, T)
                /\ exists_component(r2.s, T, e).ret
                /\ remove_all_components(r2.s, e).ret = Cardinality(TypesOf(State, e) \cup {T})
                /\ \A U \in Types, f \in CompHandles :
                       (U # T \/ f # e) =>
                           ComponentOf(r2.s, U, f) = ComponentOf(r1.s, U, f)

\* An alive entity has a component of a type, at the first dense position of
\* a storage that holds the component of another entity too, and the assign
\* of a different value replaces it.
C17_Witness ==
    \E e \in CompHandles, f \in CompHandles, T \in Types :
        /\ e # f
        /\ is_entity_alive(State, e)
        /\ find_component(State, T, e).ret.present
        /\ find_component(State, T, e).ret.pos = 0
        /\ find_component(State, T, f).ret.present
        /\ find_component(State, T, e).ret.value = 1
        /\ assign_component(State, T, e, 2, TRUE, TRUE).ret
        /\ get_component(assign_component(State, T, e, 2, TRUE, TRUE).s, T, e).ret.value = 2
        /\ StorageSize(State, T) = 2

\* C18 (SpecComp): assign_component<T>(e, v) of a handle that is not alive
\* returns false and changes nothing (no storage is created, no component
\* stored, no family id taken); of an alive handle, unless an allocation
\* fails, it returns true, the storage of T exists afterwards (created when
\* it did not exist, the other storages kept) and exists_component<T>(e) is
\* true; it throws only when an allocation fails.
C18_AssignResult ==
    \A e \in CompHandles, T \in Types, v \in CompValues, fails \in AllocFailures :
        LET r == assign_component(State, T, e, v, fails # "storages", fails # "components")
            had == find_storage_(State, T).ret # null_storage
        IN  IF ~is_entity_alive(State, e)
            THEN /\ ~r.ret
                 /\ ~r.threw
                 /\ r.s = State
            ELSE /\ fails = "none" => ~r.threw
                 /\ r.ret <=> ~r.threw
                 /\ ~r.threw =>
                        /\ find_storage_(r.s, T).ret # null_storage
                        /\ exists_component(r.s, T, e).ret
                        /\ ComponentOf(r.s, T, e) = [present |-> TRUE, value |-> v]
                        /\ Len(r.s.storages_.values_) =
                               Len(storages_.values_) + (IF had THEN 0 ELSE 1)
                        /\ r.s.entity_ids_ = entity_ids_

\* A destroyed handle stands beside an alive entity; a type has no storage
\* yet, and the assign of it to the alive entity creates the storage.
C18_Witness ==
    \E e \in CompHandles, d \in CompHandles, T \in Types :
        /\ is_entity_alive(State, e)
        /\ ~is_entity_alive(State, d)
        /\ \E p \in 1 .. Len(free_entity_ids_) : free_entity_ids_[p] = d
        /\ Len(storages_.values_) = 1
        /\ find_storage_(State, T).ret = null_storage
        /\ assign_component(State, T, e, 1, TRUE, TRUE).ret
        /\ Len(assign_component(State, T, e, 1, TRUE, TRUE).s.storages_.values_) = 2
        /\ ~assign_component(State, T, d, 1, TRUE, TRUE).ret

\* C19 (SpecComp): remove_component<T>(e) returns true exactly when e is
\* alive and has a T component; afterwards exists_component<T>(e) is false,
\* e is alive as before, and every other (entity, type) pair has the
\* component, and the value, it had.
C19_RemoveResult ==
    \A e \in CompHandles, T \in Types :
        LET r == remove_component(State, T, e)
        IN  /\ r.ret <=> (is_entity_alive(State, e) /\ ComponentOf(State, T, e).present)
            /\ ~exists_component(r.s, T, e).ret
            /\ ~ComponentOf(r.s, T, e).present
            /\ is_entity_alive(r.s, e) <=> is_entity_alive(State, e)
            /\ r.s.entity_ids_ = entity_ids_
            /\ r.ret => StorageSize(r.s, T) = StorageSize(State, T) - 1
            /\ \A U \in Types, f \in CompHandles :
                   (U # T \/ f # e) =>
                       ComponentOf(r.s, U, f) = ComponentOf(State, U, f)

\* Two alive entities have a component of one type with different values,
\* the one at the first dense position has a component of the other type
\* too, and its remove_component returns true (the component of the other
\* entity moves to its position).
C19_Witness ==
    \E e \in CompHandles, f \in CompHandles, T \in Types, U \in Types :
        /\ T # U
        /\ find_component(State, T, e).ret.present
        /\ find_component(State, T, e).ret.pos = 0
        /\ find_component(State, T, f).ret.present
        /\ find_component(State, T, f).ret.pos = 1
        /\ find_component(State, T, e).ret.value # find_component(State, T, f).ret.value
        /\ find_component(State, U, e).ret.present
        /\ remove_component(State, T, e).ret
        /\ find_component(remove_component(State, T, e).s, T, f).ret.pos = 0

\* C20 (SpecComp): get_component<T>(e) throws exactly when
\* find_component<T>(e) is null, which it is when T has no storage, when e
\* has no T and when e is not alive; otherwise it returns the component
\* find_component<T>(e) points to; neither call changes a field of the
\* registry.
C20_GetMatchesFind ==
    \A e \in CompHandles, T \in Types :
        LET g == get_component(State, T, e)
            f == find_component(State, T, e)
        IN  /\ g.threw <=> ~f.ret.present
            /\ ~g.threw => g.ret = f.ret
            /\ f.ret.present => f.ret.value \in CompValues
            /\ find_storage_(State, T).ret = null_storage => ~f.ret.present
            /\ ~exists_component(State, T, e).ret => ~f.ret.present
            /\ ~is_entity_alive(State, e) => ~f.ret.present
            /\ RegistryOf(g.s) = RegistryOf(State)
            /\ RegistryOf(f.s) = RegistryOf(State)

\* An alive entity has a component of one type, whose get_component returns
\* it, and none of a type that has no storage and has not been used, whose
\* get_component throws; a destroyed handle is there too.
C20_Witness ==
    \E e \in CompHandles, T \in Types, U \in Types :
        /\ is_entity_alive(State, e)
        /\ ~get_component(State, T, e).threw
        /\ get_component(State, T, e).ret.value = 2
        /\ self_id[U] = 0
        /\ get_component(State, U, e).threw
        /\ free_entity_ids_ # <<>>

\* C21 (SpecComp): remove_all_components(e) returns the number of storages
\* that held an entry for e at the call (0 for a handle that is not alive)
\* and removes them all: afterwards e has no component of any type, e is
\* alive exactly when it was, no storage is added or dropped, and every
\* other entity has the components, and the values, it had.
C21_RemoveAllResult ==
    \A e \in CompHandles :
        LET r == remove_all_components(State, e)
            held == {p \in 1 .. Len(storages_.values_) :
                        component_storage_exists(storages_.values_[p], e)}
        IN  /\ r.ret = Cardinality(held)
            /\ r.ret = Cardinality(TypesOf(State, e))
            /\ \A p \in 1 .. Len(r.s.storages_.values_) :
                   ~component_storage_exists(r.s.storages_.values_[p], e)
            /\ \A U \in Types : ~ComponentOf(r.s, U, e).present
            /\ is_entity_alive(r.s, e) <=> is_entity_alive(State, e)
            /\ r.s.entity_ids_ = entity_ids_
            /\ r.s.free_entity_ids_ = free_entity_ids_
            /\ r.s.storages_.keys_ = storages_.keys_
            /\ \A U \in Types, f \in CompHandles :
                   f # e => ComponentOf(r.s, U, f) = ComponentOf(State, U, f)

\* An alive entity has a component of both types and stands first in both
\* storages, a second alive entity has both too with other values; the
\* remove_all_components of the first returns 2, and the second keeps both.
C21_Witness ==
    \E e \in CompHandles, f \in CompHandles :
        /\ e # f
        /\ \A T \in Types :
               /\ find_component(State, T, e).ret.present
               /\ find_component(State, T, e).ret.pos = 0
               /\ find_component(State, T, f).ret.present
               /\ find_component(State, T, f).ret.value #
                      find_component(State, T, e).ret.value
        /\ remove_all_components(State, e).ret = 2
        /\ \A T \in Types :
               find_component(remove_all_components(State, e).s, T, f).ret.pos = 0

\* The entities of the calls of a visitor, in order.
Visited(calls) == [i \in 1 .. Len(calls) |-> calls[i].e]

\* The keys of the storage of T in dense order, none when T has no storage.
DenseOrder(s, T) ==
    LET storage == find_storage_(s, T).ret
    IN  IF storage = null_storage
        THEN <<>>
        ELSE sparse_map_keys(s.storages_.values_[storage + 1].components_)

\* The entity is alive and has a component of every type of the list.
HasAll(s, Ts, ent) ==
    /\ is_entity_alive(s, ent)
    /\ \A i \in 1 .. Len(Ts) : exists_component(s, Ts[i], ent).ret

\* The types that have a storage in storages_.
StorageTypes(s) ==
    {T \in JoinTypes : s.self_id[T] # 0 /\ sparse_map_has(s.storages_, s.self_id[T])}

\* C22 (SpecJoin): for every type list T0..Tn, for_joined_components with a
\* visitor that changes nothing calls the visitor once for each alive entity
\* that has all of T0..Tn and for no other entity, in the dense order of
\* the storage of T0, whatever the sizes of the other storages; each call
\* gets the entity's components of T0..Tn, and no field of the registry
\* changes.
C22_JoinedIteration ==
    \A Ts \in JoinLists, order \in ArgOrders :
        LET r == for_joined_components(State, Ts, order)
        IN  /\ Visited(r.calls) =
                   SelectSeq(DenseOrder(State, Ts[1]), LAMBDA id : HasAll(State, Ts, id))
            /\ \A e \in JoinHandles :
                   Cardinality({i \in 1 .. Len(r.calls) : r.calls[i].e = e}) =
                       (IF HasAll(State, Ts, e) THEN 1 ELSE 0)
            /\ \A i \in 1 .. Len(r.calls) :
                   /\ r.calls[i].e \in JoinHandles
                   /\ r.calls[i].cs =
                          [j \in 1 .. Len(Ts) |->
                              ComponentOf(State, Ts[j], r.calls[i].e).value]
            /\ RegistryOf(r.s) = RegistryOf(State)

\* Two alive entities stand in one order in the storage of A and in the
\* other order in the storage of B, and one of them alone has a C: the join
\* of A and B visits both in the order of A, the join of B and A in the
\* order of B, and the joins with C the one entity.
C22_Witness ==
    \E e \in JoinHandles, f \in JoinHandles :
        /\ e # f
        /\ DenseOrder(State, "A") = <<f, e>>
        /\ DenseOrder(State, "B") = <<e, f>>
        /\ DenseOrder(State, "C") = <<e>>
        /\ Visited(for_joined_components(State, <<"A", "B">>, "left_to_right").calls) = <<f, e>>
        /\ Visited(for_joined_components(State, <<"B", "A">>, "left_to_right").calls) = <<e, f>>
        /\ Visited(for_joined_components(State, <<"A", "B", "C">>, "right_to_left").calls) = <<e>>
        /\ Visited(for_joined_components(State, <<"C", "A">>, "left_to_right").calls) = <<e>>

\* C23 (SpecJoin): when a type of the list, the driving type or a probed
\* one, has no storage (none is ever dropped, so it never had one),
\* for_joined_components calls the visitor zero times and leaves storages_
\* as it is.
C23_NullStorageSkip ==
    \A Ts \in JoinLists, order \in ArgOrders :
        LET r == for_joined_components(State, Ts, order)
        IN  (\E i \in 1 .. Len(Ts) : Ts[i] \notin StorageTypes(State)) =>
                /\ r.calls = <<>>
                /\ r.s.storages_ = storages_
                /\ StorageTypes(r.s) = StorageTypes(State)

\* Two entities have an A and a B, and C has not been used: the joins that
\* probe C and the join that C drives call nothing and take the family id
\* of C without a storage for it.
C23_Witness ==
    /\ Len(DenseOrder(State, "A")) = 2
    /\ Len(DenseOrder(State, "B")) = 2
    /\ self_id["C"] = 0
    /\ Len(for_joined_components(State, <<"A", "B">>, "left_to_right").calls) = 2
    /\ for_joined_components(State, <<"A", "B", "C">>, "left_to_right").calls = <<>>
    /\ for_joined_components(State, <<"A", "C", "B">>, "right_to_left").calls = <<>>
    /\ for_joined_components(State, <<"C", "A">>, "left_to_right").calls = <<>>
    /\ for_joined_components(State, <<"A", "C">>, "left_to_right").s.self_id["C"] # 0
    /\ StorageTypes(for_joined_components(State, <<"A", "C">>, "left_to_right").s) = {"A", "B"}

\* C24 (SpecJoin): exists_component, find_component, get_component,
\* remove_component, remove_all_components, for_each_component and
\* for_joined_components leave the types that have a storage as they are
\* (is_alive reads entity_ids_ alone), and so do create_entity,
\* destroy_entity and an assign_component of a handle that is not alive; an
\* assign_component<T> of an alive entity adds the storage of T, and no
\* other.
C24_ReadsCreateNoStorage ==
    /\ \A e \in JoinHandles :
           /\ StorageTypes(remove_all_components(State, e).s) = StorageTypes(State)
           /\ remove_all_components(State, e).s.storages_.keys_ = storages_.keys_
           /\ StorageTypes(destroy_entity(State, e).s) = StorageTypes(State)
           /\ is_entity_alive(State, e) \in BOOLEAN
    /\ StorageTypes(create_entity(State, TRUE).s) = StorageTypes(State)
    /\ \A T \in JoinTypes :
           /\ StorageTypes(for_each_component(State, T).s) = StorageTypes(State)
           /\ for_each_component(State, T).s.storages_ = storages_
           /\ \A e \in JoinHandles :
                  /\ StorageTypes(exists_component(State, T, e).s) = StorageTypes(State)
                  /\ exists_component(State, T, e).s.storages_ = storages_
                  /\ StorageTypes(find_component(State, T, e).s) = StorageTypes(State)
                  /\ find_component(State, T, e).s.storages_ = storages_
                  /\ StorageTypes(get_component(State, T, e).s) = StorageTypes(State)
                  /\ get_component(State, T, e).s.storages_ = storages_
                  /\ StorageTypes(remove_component(State, T, e).s) = StorageTypes(State)
                  /\ remove_component(State, T, e).s.storages_.keys_ = storages_.keys_
                  /\ \A v \in JoinValues :
                         StorageTypes(assign_component(State, T, e, v, TRUE, TRUE).s) =
                             (IF is_entity_alive(State, e)
                              THEN StorageTypes(State) \cup {T}
                              ELSE StorageTypes(State))
    /\ \A Ts \in JoinLists, order \in ArgOrders :
           /\ StorageTypes(for_joined_components(State, Ts, order).s) = StorageTypes(State)
           /\ for_joined_components(State, Ts, order).s.storages_ = storages_

\* A has a storage, B and C have none and have not been used; an entity is
\* alive and a handle is destroyed.  The reads of B take its family id and
\* leave A alone in storages_, the assign of B to the destroyed handle too,
\* and the assign of B to the alive entity adds the storage of B.
C24_Witness ==
    \E e \in JoinHandles, d \in JoinHandles :
        /\ is_entity_alive(State, e)
        /\ ~is_entity_alive(State, d)
        /\ free_entity_ids_ = <<d>>
        /\ StorageTypes(State) = {"A"}
        /\ self_id["B"] = 0
        /\ self_id["C"] = 0
        /\ find_component(State, "B", e).s.self_id["B"] # 0
        /\ StorageTypes(find_component(State, "B", e).s) = {"A"}
        /\ StorageTypes(for_each_component(State, "B").s) = {"A"}
        /\ StorageTypes(for_joined_components(State, <<"B", "C">>, "left_to_right").s) = {"A"}
        /\ StorageTypes(assign_component(State, "B", d, 1, TRUE, TRUE).s) = {"A"}
        /\ StorageTypes(assign_component(State, "B", e, 1, TRUE, TRUE).s) = {"A", "B"}

\* The dense order after the entry of e, if there is one, is removed: the
\* last entry stands where e stood, the others where they stood.
SwapRemoved(order, e) ==
    IF \E i \in 1 .. Len(order) : order[i] = e
    THEN LET i == CHOOSE i \in 1 .. Len(order) : order[i] = e
         IN  [p \in 1 .. Len(order) - 1 |-> IF p = i THEN order[Len(order)] ELSE order[p]]
    ELSE order

\* C25 (SpecEach): for_each_component<T> with a visitor that changes nothing
\* calls the visitor once for each entity that has a T, and for no other, in
\* the dense order of the storage, with the entity's component.  The first
\* assign of T to an entity puts it last in that order and a later assign
\* leaves the order; remove_component and destroy_entity of the entity at
\* position i move the last entry to position i and leave the others.
C25_DenseOrderIteration ==
    \A T \in EachTypes :
        LET order == DenseOrder(State, T)
            r == for_each_component(State, T)
        IN  /\ Visited(r.calls) = order
            /\ RegistryOf(r.s) = RegistryOf(State)
            /\ \A i \in 1 .. Len(r.calls) :
                   r.calls[i].cs = <<ComponentOf(State, T, r.calls[i].e).value>>
            /\ \A e \in EachHandles :
                   /\ Cardinality({i \in 1 .. Len(r.calls) : r.calls[i].e = e}) =
                          (IF exists_component(State, T, e).ret THEN 1 ELSE 0)
                   /\ \A v \in EachValues :
                          DenseOrder(assign_component(State, T, e, v, TRUE, TRUE).s, T) =
                              (IF is_entity_alive(State, e) /\ ~exists_component(State, T, e).ret
                               THEN Append(order, e)
                               ELSE order)
                   /\ DenseOrder(remove_component(State, T, e).s, T) = SwapRemoved(order, e)
                   /\ DenseOrder(destroy_entity(State, e).s, T) = SwapRemoved(order, e)

\* C is assigned to the entities e0, e1, e2, e3 in this order, and the
\* iteration after destroying e1 visits e0, e3, e2.
C25_Witness ==
    /\ DenseOrder(State, "C") = <<ToId(1), ToId(2), ToId(3), ToId(4)>>
    /\ Visited(for_each_component(State, "C").calls) = <<ToId(1), ToId(2), ToId(3), ToId(4)>>
    /\ Visited(for_each_component(destroy_entity(State, ToId(2)).s, "C").calls) =
           <<ToId(1), ToId(4), ToId(3)>>
    /\ Visited(for_each_component(remove_component(State, "C", ToId(4)).s, "C").calls) =
           <<ToId(1), ToId(2), ToId(3)>>

\* C26 (SpecFamily): a type that has been used has an id of at least 1, and
\* two such types have different ids; the use of a type returns an id of at
\* least 1 that no other type has or gets, the id the type has when it has
\* been used before, and the id every later use returns; a use through the
\* second registry returns the same id and leaves the same statics, and the
\* storages of both registries are keyed by these ids.
C26_FamilyIds ==
    /\ \A T \in JoinTypes : self_id[T] # 0 => self_id[T] \in 1 .. last_id_
    /\ \A T \in JoinTypes, U \in JoinTypes :
           (T # U /\ self_id[T] # 0 /\ self_id[U] # 0) => self_id[T] # self_id[U]
    /\ \A T \in JoinTypes :
           LET a == type_family_id(State, T)
               b == type_family_id(SecondState, T)
           IN  /\ a.ret >= 1
               /\ self_id[T] # 0 => (a.ret = self_id[T] /\ a.s = State)
               /\ \A U \in JoinTypes :
                      /\ type_family_id(type_family_id(a.s, U).s, T).ret = a.ret
                      /\ U # T =>
                             /\ self_id[U] # 0 => a.ret # self_id[U]
                             /\ type_family_id(a.s, U).ret # a.ret
               /\ b.ret = a.ret
               /\ b.s.self_id = a.s.self_id
               /\ b.s.last_id_ = a.s.last_id_
               /\ find_storage_(SecondState, T).s.self_id[T] = a.ret
               /\ find_storage_(State, T).s.self_id[T] = a.ret
    /\ \A k \in DenseValues(storages_.keys_) \cup DenseValues(second.storages_.keys_) :
           \E T \in JoinTypes : self_id[T] = k

\* Both registries have a storage of one type, under the one id of the
\* type, the first registry at its first position and the second at its
\* second; another type got its id through the second registry alone, and a
\* third type has not been used.
C26_Witness ==
    \E T \in JoinTypes, U \in JoinTypes, V \in JoinTypes :
        /\ find_storage_(State, T).ret = 0
        /\ find_storage_(SecondState, T).ret = 1
        /\ find_storage_(SecondState, U).ret = 0
        /\ find_storage_(State, U).ret = null_storage
        /\ self_id[U] = 1
        /\ self_id[T] = 2
        /\ self_id[V] = 0
        /\ type_family_id(State, V).ret = 3
        /\ type_family_id(SecondState, V).ret = 3

Min(a, b) == IF a <= b THEN a ELSE b

\* index(v) + 1 > max_size, of a std::size_t v.
ExceedsMaxSize(v) == v = size_t_max \/ v + 1 > sparse_set_max_size

\* C27 (SpecGrow), as the claim states it: when insert(v) finds
\* index(v) >= capacity, it fails with std::length_error, the set as it
\* was, exactly when index(v) + 1 > max_size, and otherwise the new
\* capacity is min(max(2 * capacity, index(v) + 1), max_size); dense_ and
\* sparse_ have the length capacity_.
C27_GrowthPolicy ==
    /\ \A v \in GrowKeys :
           LET r == insert_growth(bigset, v, TRUE)
           IN  ~size_t_less(v, bigset.capacity_) =>
                   /\ (r.outcome = "length_error") <=> ExceedsMaxSize(v)
                   /\ r.outcome = "length_error" => r.capacity_ = bigset.capacity_
                   /\ ~ExceedsMaxSize(v) =>
                          r.capacity_ = Min(Max(2 * bigset.capacity_, v + 1),
                                            sparse_set_max_size)
    /\ \A v \in SetKeys :
           LET r == sparse_set_insert(sset, v, TRUE)
           IN  v >= sset.capacity_ =>
                   /\ r.threw <=> ExceedsMaxSize(v)
                   /\ r.threw => r.set = sset
                   /\ ~r.threw =>
                          /\ r.set.capacity_ = Min(Max(2 * sset.capacity_, v + 1),
                                                   sparse_set_max_size)
                          /\ DOMAIN r.set.dense_ = 0 .. r.set.capacity_ - 1
                          /\ DOMAIN r.set.sparse_ = 0 .. r.set.capacity_ - 1
    /\ DOMAIN sset.dense_ = 0 .. sset.capacity_ - 1
    /\ DOMAIN sset.sparse_ = 0 .. sset.capacity_ - 1

\* The dense positions of entity_ids_ that hold an id of index i.
AliveAt(i) == {p \in 0 .. entity_ids_.size_ - 1 : entity_id_index(entity_ids_.dense_[p]) = i}

\* The positions of the free list that hold an id of index i.
FreeAt(i) ==
    {p \in 1 .. Len(free_entity_ids_) : entity_id_index(free_entity_ids_[p]) = i}

PairLists ==
    {<<T>> : T \in Types} \cup {Ts \in {<<T, U>> : T \in Types, U \in Types} : Ts[1] # Ts[2]}

\* C29 (Spec): every key of every component storage is the full id, index
\* and generation, of an entity that is alive, so every handle that
\* for_each_component or for_joined_components gives a visitor is alive.
C29_StorageKeysAlive ==
    /\ \A p \in 1 .. Len(storages_.values_) :
           \A id \in DenseValues(storages_.values_[p].components_.keys_) :
               /\ id \in LiveIds
               /\ is_entity_alive(State, id)
    /\ \A T \in Types :
           LET r == for_each_component(State, T)
           IN  \A i \in 1 .. Len(r.calls) : is_entity_alive(State, r.calls[i].e)
    /\ \A Ts \in PairLists, order \in ArgOrders :
           LET r == for_joined_components(State, Ts, order)
           IN  \A i \in 1 .. Len(r.calls) : is_entity_alive(State, r.calls[i].e)

\* An entity in the second generation of its slot has both components, the
\* handle of the first generation is not alive, and another handle is
\* destroyed: the iterations visit the entity under its current id.
C29_Witness ==
    \E e \in Handles, d \in Handles :
        /\ entity_id_version(e) = 1
        /\ is_entity_alive(State, e)
        /\ ~is_entity_alive(State, U32(entity_id_index(e), 0))
        /\ free_entity_ids_ = <<d>>
        /\ Visited(for_each_component(State, "A").calls) = <<e>>
        /\ Visited(for_joined_components(State, <<"B", "A">>, "left_to_right").calls) = <<e>>

\* C30 (SpecComp): destroy_entity(e) of an alive e returns true and leaves
\* every other handle alive exactly when it was and, of every type, with
\* the component and the value it had; create_entity, failing or not,
\* leaves storages_ as it is, so every handle keeps its components, and the
\* entity it returns has none.
C30_DestroyFrame ==
    /\ \A e \in CompHandles :
           is_entity_alive(State, e) =>
               LET r == destroy_entity(State, e)
               IN  /\ r.ret
                   /\ ~is_entity_alive(r.s, e)
                   /\ \A f \in CompHandles \ {e} :
                          /\ is_entity_alive(r.s, f) <=> is_entity_alive(State, f)
                          /\ \A U \in Types :
                                 ComponentOf(r.s, U, f) = ComponentOf(State, U, f)
    /\ \A alloc_ok \in BOOLEAN :
           LET c == create_entity(State, alloc_ok)
           IN  /\ c.s.storages_ = storages_
               /\ \A f \in CompHandles, U \in Types :
                      /\ is_entity_alive(State, f) => is_entity_alive(c.s, f)
                      /\ (f # c.ret \/ c.threw) =>
                             ComponentOf(c.s, U, f) = ComponentOf(State, U, f)
                      /\ (f = c.ret /\ ~c.threw) => ~ComponentOf(c.s, U, f).present

\* Two alive entities have the components of both types, with different
\* values of one type; the one that stands first in the storages is
\* destroyed, and the other moves to the first position with its values.
C30_Witness ==
    \E e \in CompHandles, f \in CompHandles, T \in Types :
        /\ e # f
        /\ \A U \in Types :
               /\ find_component(State, U, e).ret.pos = 0
               /\ find_component(State, U, f).ret.pos = 1
        /\ find_component(State, T, e).ret.value = 1
        /\ find_component(State, T, f).ret.value = 2
        /\ destroy_entity(State, e).ret
        /\ find_component(destroy_entity(State, e).s, T, f).ret =
               [present |-> TRUE, pos |-> 0, value |-> 2]

\* C31 (SpecMap): insert(k, v) and emplace(k, v) on a map that holds k
\* return false, throw nothing whether or not memory is left, and leave the
\* map as it is: the value stored for k, the size and the dense order.
\* assign of a component storage whose components_ is the map does replace
\* the value of k, and that alone.
C31_InsertKeepsValue ==
    \A k \in MapKeys, v \in MapValues, alloc_ok \in BOOLEAN :
        sparse_map_has(smap, k) =>
            LET i == sparse_map_insert(smap, k, v, alloc_ok)
                e == sparse_map_emplace(smap, k, v, alloc_ok)
                a == component_storage_assign([components_ |-> smap], k, v, alloc_ok)
            IN  /\ ~i.ret /\ ~i.threw
                /\ ~e.ret /\ ~e.threw
                /\ sparse_map_find_value(i.map, k) = sparse_map_find_value(smap, k)
                /\ sparse_map_find_value(e.map, k) = sparse_map_find_value(smap, k)
                /\ sparse_map_find_value(i.map, k).value = stored[k]
                /\ sparse_map_find_value(e.map, k).value = stored[k]
                /\ i.map.keys_.size_ = smap.keys_.size_
                /\ e.map.keys_.size_ = smap.keys_.size_
                /\ Len(i.map.values_) = Len(smap.values_)
                /\ Len(e.map.values_) = Len(smap.values_)
                /\ sparse_map_keys(i.map) = sparse_map_keys(smap)
                /\ sparse_map_keys(e.map) = sparse_map_keys(smap)
                /\ i.map = smap
                /\ e.map = smap
                /\ ~a.threw
                /\ a.storage.components_.keys_ = smap.keys_
                /\ sparse_map_find_value(a.storage.components_, k).value = v
                /\ \A j \in MapKeys \ {k} :
                       sparse_map_find_value(a.storage.components_, j) =
                           sparse_map_find_value(smap, j)

\* The map holds two keys with different values, the key at the first
\* position with the value 1: its insert and its emplace with the value 2
\* return false and leave the value 1, and the assign stores 2.
C31_Witness ==
    \E k \in 0 .. MaxMapKey, j \in 0 .. MaxMapKey :
        /\ sparse_map_find_value(smap, k) = [present |-> TRUE, pos |-> 0, value |-> 1]
        /\ sparse_map_find_value(smap, j) = [present |-> TRUE, pos |-> 1, value |-> 2]
        /\ ~sparse_map_insert(smap, k, 2, TRUE).ret
        /\ ~sparse_map_emplace(smap, k, 2, FALSE).ret
        /\ sparse_map_find_value(sparse_map_insert(smap, k, 2, TRUE).map, k).value = 1
        /\ sparse_map_find_value(sparse_map_emplace(smap, k, 2, TRUE).map, k).value = 1
        /\ sparse_map_find_value(
               component_storage_assign([components_ |-> smap], k, 2, TRUE).storage.components_,
               k).value = 2

====
